---- MODULE Spec2Model ----
(***************************************************************************)
(* Model of survey_planner/command_astrobee.py: the CommandExecutor        *)
(* (correlated command + acknowledgment polling), the ProcessExecutor      *)
(* (bridged external process with two forwarding threads) and the retry    *)
(* orchestrators built on them.                                            *)
(*                                                                         *)
(* Several specifications share the module, among them:                    *)
(*   SpecCmd    survey_manager_executor driving one CommandExecutor per    *)
(*              run, with the rospy subscriber thread running ack_callback *)
(*              and plan_status_callback concurrently with the main thread *)
(*   SpecProc   send_command with thread_write_output / thread_read_input  *)
(*   SpecRetry  send_command_recursive / survey_manager_executor_recursive *)
(* Every variable belongs to one of them; a specification leaves the       *)
(* variables of the others at their initial value.                         *)
(***************************************************************************)
EXTENDS Integers, Sequences, FiniteSets, TLC

\* ---------------------------------------------------------------- constants
\* command_astrobee.py:50
MAX_COUNTER == 10
\* passes through the loop body of wait_plan that are counted
MaxPolls == MAX_COUNTER + 1

\* ------------------------------------------------------------------- bounds
\* survey_manager_executor runs (first run + operator "yes" reruns)
MaxRuns == 2
\* lines thread_write_output reads from the external process
MaxLines == 2
\* lines thread_read_input receives from the input endpoint
MaxInput == 1
\* connection resets on the input endpoint
MaxResets == 1
\* depth of the retry recursion (frames on the stack)
MaxDepth == 3
\* prompts issued in one top-level call of the retry orchestrator
MaxPrompts == 4

VARIABLES
  shutdown,            \* rospy.is_shutdown()
  \* ---- main thread inside survey_manager_executor / CommandExecutor
  pc,                  \* position of the main thread
  atype,               \* args["type"]: "panorama" | "stereo"
  exit_code,           \* survey_manager_executor's accumulated exit_code
  run_number,          \* survey_manager_executor_recursive's run_number
  cmd,                 \* command being sent: "none" | "start" | "stop"
  result,              \* value returned by the CommandExecutor call at hand
                       \* (0 once the caller has taken it)
  counter,             \* local counter of publish_and_wait_response and of
                       \* wait_plan (0 outside the calls)
  \* ---- CommandExecutor fields
  ack_needed,
  ack_msg,             \* NoMsg while the attribute does not exist
  unique_cmd_id,
  plan_status_needed,
  plan_name,
  \* ---- bus / clock
  next_id,             \* rospy.Time.now(): a fresh value per command
  published,           \* cmd_ids published on <ns>/command by this program
  \* ---- subscriber thread running ack_callback
  cb_pc,
  cb_msg,
  \* ---- history of the current wait (observation only)
  sleeps,              \* rospy.sleep(1) calls made by the current call
  g_term,              \* status of the first terminal matching ack
                       \* delivered to ack_callback in the wait (NoTerm: none)
  g_not,               \* a matching NOT ack was delivered before it
  g_early,             \* every matching ack so far, up to the first terminal
                       \* one, came with at least 2 poll iterations left
  g_other,             \* a non-matching ack reached the identifier test of
                       \* ack_callback (ack_needed was set) during the wait
  g_late,              \* ... and it acknowledged an earlier command
  resolved_by,         \* the stored ack the call returned on (NoMsg: none)
  polls,               \* passes through the loop body of wait_plan in the
                       \* current call (counted up to MaxPolls)
  g_plan,              \* how plan_status_callback cleared plan_status_needed
                       \* for the plan wait at hand: "completed" | "abandoned"
  \* ---- retry orchestrator (SpecRetry)
  r_level,             \* "send_command" | "survey": which orchestrator runs
  r_stack,             \* call stack of the recursion: frames [pc, exit_code]
  r_repeat,            \* local repeat of the running frame
  r_run,               \* run_number (survey level)
  r_ret,               \* value returned by the top-level call (NoRet: none)
  r_prompts,           \* write_output_once calls so far
  r_reads,             \* read_input_once calls so far
  r_execs,             \* executions of the action so far
  r_first,             \* result of the first execution (NoRet: none)
  r_last,              \* result of the latest execution
  r_skipped,           \* some frame took the "skip" branch
  r_mark,              \* value of the latest read and the counters then,
                       \* with the number of "yes" replies read so far
  \* ---- bridged process session (SpecProc)
  p_pc,                \* position of the main thread in send_command
  return_code,         \* local return_code, held as <<v>>; <<>> is None
  stop_event,          \* self._stop_event
  proc,                \* the external process: "none" | "running" | "exited"
  killed,              \* process.kill() was called
  wo_pc,               \* position of thread_write_output
  wo_output,           \* its local output
  output_total,        \* its local output_total, as a sequence of lines
  ri_pc,               \* position of thread_read_input
  ri_request,          \* its local request (Unbound before the first recv)
  sock_output_connected,
  out_conn,            \* sock_output_conn: "none" | "open" | "closed"
  console_rx,          \* the lines the console on sock_output_conn has
                       \* received whole
  sock_input_connected,
  in_recvs,            \* lines received from the input endpoint so far
  in_resets,           \* connection resets seen on the input endpoint so far
  stdin_written,       \* what has been written to the process's stdin
  g_read,              \* lines thread_write_output has read from the process
                       \* and kept past the poll/stop test of line 194
  g_flush,             \* <<payload>> right after the flush that follows a
                       \* console's connection was made, whole or in part;
                       \* <<>> once another line is read
  g_reset,             \* the prompt was called with the output connection
                       \* state reset by a failed write of the session
  once_ret,            \* what read_input_once handed back to
                       \* send_command_recursive (Unbound: not called yet)
  \* ---- the two retry orchestrators side by side (SpecLevels)
  l_in,                \* what both are given: action results, operator
                       \* replies, and the loop test from which the node is
                       \* shut down
  l_send,              \* <<outcome>> of send_command_recursive on l_in
  l_survey,            \* <<outcome>> of survey_manager_executor_recursive
  \* ---- plan_status_callback seen event by event (SpecPlanStatus)
  ps_event,            \* the latest event handed to plan_status_callback, with
                       \* plan_status_needed as it was before
  ps_count,            \* events handed to plan_status_callback so far
  \* ---- survey_manager_executor on given step results (SpecExecutor)
  e_in,                \* args["type"] and what each step returns when called
  e_out,               \* <<outcome>> of survey_manager_executor on e_in
  \* ---- ProcessExecutor objects of one robot name (SpecBind)
  b_pc,                \* per session: position in ProcessExecutor.__init__
  b_fs,                \* per socket path: the session whose bind created the
                       \* file there (0: no file)
  b_bound              \* per session: the paths its open sockets were bound to

cvars == <<pc, atype, exit_code, run_number, cmd, result, counter,
           ack_needed, ack_msg, unique_cmd_id, plan_status_needed, plan_name,
           next_id, published, cb_pc, cb_msg,
           sleeps, g_term, g_not, g_early, g_other, g_late, resolved_by,
           polls, g_plan>>

\* variables of the other two specifications
rvars == <<r_level, r_stack, r_repeat, r_run, r_ret, r_prompts, r_reads,
           r_execs, r_first, r_last, r_skipped, r_mark>>
pvars == <<p_pc, return_code, stop_event, proc, killed,
           wo_pc, wo_output, output_total, ri_pc, ri_request,
           sock_output_connected, out_conn, console_rx,
           sock_input_connected, in_recvs, in_resets,
           stdin_written, g_read, g_flush, g_reset, once_ret>>
lvars == <<l_in, l_send, l_survey>>
psvars == <<ps_event, ps_count>>
evars == <<e_in, e_out>>
bvars == <<b_pc, b_fs, b_bound>>
xvars == <<psvars, evars, bvars>>
nonCmd == <<pvars, rvars, lvars, xvars>>

vars == <<shutdown, cvars, pvars, rvars, lvars, xvars>>

\* ------------------------------------------------------------ message values
\* ff_msgs/AckCompletedStatus: NOT = 0 (still executing), OK = 1, others failed
StatusNOT == "NOT"
StatusOK == "OK"
StatusBAD == "BAD_SYNTAX"
AckStatuses == {StatusNOT, StatusOK, StatusBAD}

\* a local variable that has not been assigned
Unbound == "<unbound>"
\* "no value" (None); a value v is held as <<v>>
NoRet == <<>>

NoTerm == "none"
NoMsg == [cmd_id |-> <<"unset">>, status |-> "unset"]

\* "survey_manager" + str(rospy.Time.now().to_sec())
CmdId(t) == <<"survey_manager", t>>
\* the empty string unique_cmd_id is initialised with
EmptyId == <<>>
\* an acknowledgment of a command issued by another source on the same topic
ForeignId == <<"gds", 0>>

AckIds == published \cup {ForeignId}
AckMsgs == [cmd_id : AckIds, status : AckStatuses]

PlanFile == "survey.fplan"

\* what Popen.poll() gives for a process that has ended (line 332): its exit
\* status (127: the shell found no such command), or -N when signal N ended it
ProcCodes == {-9, -1, 0, 1, 2, 127}

\* what send_command_recursive hands back: one of these codes, held as <<c>>,
\* or None (<<>>) when send_command returned while the process still ran
ProcReturns == {<<c>> : c \in ProcCodes} \cup {NoRet}

\* the attribute unique_cmd_id before line 399 has assigned it
UnsetId == <<"unset">>

InWait == pc \in {"pwr_loop", "pwr_check", "pwr_status", "pwr_rearm", "pwr_sleep"}

\* --------------------------------------------------------- CommandExecutor
\* (variant: the identifier is not compared)
AckMatchesAny(msg) == TRUE

\* ack_callback line 444, second conjunct
AckMatches(msg) == msg.cmd_id = unique_cmd_id

\* (variant: one iteration too many)
LoopContinuesOffByOne(c) == c <= MAX_COUNTER

\* publish_and_wait_response line 471
LoopContinues(c) == c < MAX_COUNTER

\* publish_and_wait_response lines 474-482: what the stored status leads to
StatusOutcome(st) ==
  IF st = StatusNOT THEN "rearm"
  ELSE IF st = StatusOK THEN "ret0"
  ELSE "ret1"

ResetHistory ==
  /\ sleeps' = 0
  /\ g_term' = NoTerm
  /\ g_not' = FALSE
  /\ g_early' = TRUE
  /\ g_other' = FALSE
  /\ g_late' = FALSE
  /\ resolved_by' = NoMsg

KeepHistory == UNCHANGED <<sleeps, g_term, g_not, g_early, g_other, g_late, resolved_by>>

KeepPlan == UNCHANGED <<polls, g_plan>>

\* CommandExecutor.__init__ lines 378-395 (a new object per
\* survey_manager_executor call)
Construct ==
  /\ pc = "init"
  /\ \E t \in {"panorama", "stereo"} : atype' = t
  /\ exit_code' = 0
  /\ ack_needed' = FALSE
  /\ ack_msg' = NoMsg
  /\ plan_status_needed' = FALSE
  /\ plan_name' = ""
  /\ unique_cmd_id' = UnsetId
  /\ cb_pc' = "idle"
  /\ cb_msg' = NoMsg
  /\ cmd' = "none"
  /\ pc' = "init_wait"
  /\ ResetHistory
  /\ UNCHANGED <<shutdown, run_number, result, counter, next_id, published>>
  /\ KeepPlan
  /\ UNCHANGED nonCmd

\* CommandExecutor.__init__ line 396: the loop goes on while no subscriber is
\* connected to <ns>/command and the node is not shut down; line 399 follows
\* the loop
ConstructTest ==
  /\ pc = "init_wait"
  /\ \E connections \in {0, 1} :
       IF connections = 0 /\ ~shutdown
         THEN /\ pc' = "init_sleep"
              /\ UNCHANGED unique_cmd_id
         ELSE /\ pc' = "start_recording"
              /\ unique_cmd_id' = EmptyId
  /\ KeepHistory
  /\ UNCHANGED <<shutdown, atype, exit_code, run_number, cmd, result, counter,
                 ack_needed, ack_msg, plan_status_needed, plan_name,
                 next_id, published, cb_pc, cb_msg>>
  /\ KeepPlan
  /\ UNCHANGED nonCmd

\* CommandExecutor.__init__ lines 397-398: rospy.sleep(1) returns, or, once
\* the node is shut down on simulated time, raises ROSInterruptException
ConstructSleep ==
  /\ pc = "init_sleep"
  /\ \/ pc' = "init_wait"
     \/ /\ shutdown
        /\ pc' = "raised"
  /\ KeepHistory
  /\ UNCHANGED <<shutdown, atype, exit_code, run_number, cmd, result, counter,
                 ack_needed, ack_msg, unique_cmd_id, plan_status_needed,
                 plan_name, next_id, published, cb_pc, cb_msg>>
  /\ KeepPlan
  /\ UNCHANGED nonCmd

\* start_recording lines 401-417 / stop_recording lines 420-430, up to the call
SendRecording(at, name) ==
  /\ pc = at
  /\ unique_cmd_id' = CmdId(next_id)
  /\ next_id' = next_id + 1
  /\ cmd' = name
  /\ pc' = "pwr_enter"
  /\ ResetHistory
  /\ UNCHANGED <<shutdown, atype, exit_code, run_number, result, counter,
                 ack_needed, ack_msg, plan_status_needed, plan_name,
                 published, cb_pc, cb_msg>>
  /\ KeepPlan
  /\ UNCHANGED nonCmd

StartRecording == SendRecording("start_recording", "start")

StopRecording == SendRecording("stop_recording", "stop")

\* publish_and_wait_response lines 463-466
PwrEnter ==
  /\ pc = "pwr_enter"
  /\ IF shutdown
       THEN /\ result' = 1
            /\ pc' = "pwr_ret"
            /\ UNCHANGED ack_needed
       ELSE /\ ack_needed' = TRUE
            /\ pc' = "pwr_publish"
            /\ UNCHANGED result
  /\ KeepHistory
  /\ UNCHANGED <<shutdown, atype, exit_code, run_number, cmd, counter,
                 ack_msg, unique_cmd_id, plan_status_needed, plan_name,
                 next_id, published, cb_pc, cb_msg>>
  /\ KeepPlan
  /\ UNCHANGED nonCmd

\* publish_and_wait_response lines 467-470
PwrPublish ==
  /\ pc = "pwr_publish"
  /\ published' = published \cup {unique_cmd_id}
  /\ counter' = 0
  /\ pc' = "pwr_loop"
  /\ KeepHistory
  /\ UNCHANGED <<shutdown, atype, exit_code, run_number, cmd, result,
                 ack_needed, ack_msg, unique_cmd_id, plan_status_needed,
                 plan_name, next_id, cb_pc, cb_msg>>
  /\ KeepPlan
  /\ UNCHANGED nonCmd

\* publish_and_wait_response line 471 and, when the loop ends, line 486
PwrLoop ==
  /\ pc = "pwr_loop"
  /\ IF LoopContinues(counter)
       THEN /\ pc' = "pwr_check"
            /\ UNCHANGED result
       ELSE /\ result' = 1
            /\ pc' = "pwr_ret"
  /\ KeepHistory
  /\ UNCHANGED <<shutdown, atype, exit_code, run_number, cmd, counter,
                 ack_needed, ack_msg, unique_cmd_id, plan_status_needed,
                 plan_name, next_id, published, cb_pc, cb_msg>>
  /\ KeepPlan
  /\ UNCHANGED nonCmd

\* publish_and_wait_response line 473
PwrCheck ==
  /\ pc = "pwr_check"
  /\ pc' = IF ack_needed = FALSE THEN "pwr_status" ELSE "pwr_sleep"
  /\ KeepHistory
  /\ UNCHANGED <<shutdown, atype, exit_code, run_number, cmd, result, counter,
                 ack_needed, ack_msg, unique_cmd_id, plan_status_needed,
                 plan_name, next_id, published, cb_pc, cb_msg>>
  /\ KeepPlan
  /\ UNCHANGED nonCmd

\* publish_and_wait_response lines 474-482
PwrStatus ==
  /\ pc = "pwr_status"
  /\ LET o == StatusOutcome(ack_msg.status) IN
       /\ pc' = IF o = "rearm" THEN "pwr_rearm" ELSE "pwr_ret"
       /\ result' = IF o = "ret0" THEN 0 ELSE IF o = "ret1" THEN 1 ELSE result
       /\ resolved_by' = IF o = "rearm" THEN resolved_by ELSE ack_msg
  /\ UNCHANGED <<sleeps, g_term, g_not, g_early, g_other, g_late>>
  /\ UNCHANGED <<shutdown, atype, exit_code, run_number, cmd, counter,
                 ack_needed, ack_msg, unique_cmd_id, plan_status_needed,
                 plan_name, next_id, published, cb_pc, cb_msg>>
  /\ KeepPlan
  /\ UNCHANGED nonCmd

\* (variant: a NOT acknowledgment uses up an iteration)
CounterAfterNotCounts(c) == c + 1

\* publish_and_wait_response lines 474-476: the branch has no counter += 1
CounterAfterNot(c) == c

\* publish_and_wait_response line 476
PwrRearm ==
  /\ pc = "pwr_rearm"
  /\ ack_needed' = TRUE
  /\ counter' = CounterAfterNot(counter)
  /\ pc' = "pwr_loop"
  /\ KeepHistory
  /\ UNCHANGED <<shutdown, atype, exit_code, run_number, cmd, result,
                 ack_msg, unique_cmd_id, plan_status_needed, plan_name,
                 next_id, published, cb_pc, cb_msg>>
  /\ KeepPlan
  /\ UNCHANGED nonCmd

\* publish_and_wait_response lines 484-485; once the node is shut down
\* rospy.sleep raises ROSInterruptException when the node runs on simulated
\* time, and returns as usual when it runs on wall-clock time
PwrSleep ==
  /\ pc = "pwr_sleep"
  /\ \/ /\ shutdown
        /\ pc' = "raised"
        /\ UNCHANGED <<counter, sleeps>>
     \/ /\ counter' = counter + 1
        /\ sleeps' = sleeps + 1
        /\ pc' = "pwr_loop"
  /\ UNCHANGED <<g_term, g_not, g_early, g_other, g_late, resolved_by>>
  /\ UNCHANGED <<shutdown, atype, exit_code, run_number, cmd, result,
                 ack_needed, ack_msg, unique_cmd_id, plan_status_needed,
                 plan_name, next_id, published, cb_pc, cb_msg>>
  /\ KeepPlan
  /\ UNCHANGED nonCmd

\* (variant: the survey goes on after a start_recording that failed)
AfterRecordingGoesOn(c, total, at) ==
  IF c = "stop" THEN "exec_ret"
  ELSE IF at = "panorama" THEN "process"
  ELSE "set_plan_needed"

\* survey_manager_executor lines 569-571 / 584-586: return when
\* start_recording failed; lines 578-579 / 600-602: return after stop_recording
AfterRecording(c, total, at) ==
  IF c = "stop" THEN "exec_ret"
  ELSE IF total # 0 THEN "exec_ret"
  ELSE IF at = "panorama" THEN "process"
  ELSE "set_plan_needed"

\* survey_manager_executor lines 566-571 / 581-586 (after start_recording) and
\* lines 578 / 600 (after stop_recording)
PwrReturn ==
  /\ pc = "pwr_ret"
  /\ exit_code' = exit_code + result
  /\ pc' = AfterRecording(cmd, exit_code + result, atype)
  /\ ResetHistory
  /\ result' = 0
  /\ counter' = 0
  /\ UNCHANGED <<shutdown, atype, run_number, cmd,
                 ack_needed, ack_msg, unique_cmd_id, plan_status_needed,
                 plan_name, next_id, published, cb_pc, cb_msg>>
  /\ KeepPlan
  /\ UNCHANGED nonCmd

\* survey_manager_executor line 591
SetPlanNeeded ==
  /\ pc = "set_plan_needed"
  /\ plan_status_needed' = TRUE
  /\ pc' = "set_plan_name"
  /\ polls' = 0
  /\ g_plan' = "none"
  /\ KeepHistory
  /\ UNCHANGED <<shutdown, atype, exit_code, run_number, cmd, result, counter,
                 ack_needed, ack_msg, unique_cmd_id, plan_name,
                 next_id, published, cb_pc, cb_msg>>
  /\ UNCHANGED nonCmd

\* survey_manager_executor line 592
SetPlanName ==
  /\ pc = "set_plan_name"
  /\ plan_name' = PlanFile
  /\ pc' = "process"
  /\ KeepHistory
  /\ UNCHANGED <<shutdown, atype, exit_code, run_number, cmd, result, counter,
                 ack_needed, ack_msg, unique_cmd_id, plan_status_needed,
                 next_id, published, cb_pc, cb_msg>>
  /\ KeepPlan
  /\ UNCHANGED nonCmd

\* survey_manager_executor lines 573-577 / 593-597: the command line is built
\* and send_command_recursive is called; for a stereo action os.path.join
\* (line 595) raises TypeError when get_ops_plan_path() (lines 97-121, called
\* at line 589) found no plan directory and gave None
ProcessCall ==
  /\ pc = "process"
  /\ \/ pc' = "process_wait"
     \/ /\ atype = "stereo"
        /\ pc' = "raised"
  /\ KeepHistory
  /\ UNCHANGED <<shutdown, atype, exit_code, run_number, cmd, result, counter,
                 ack_needed, ack_msg, unique_cmd_id, plan_status_needed,
                 plan_name, next_id, published, cb_pc, cb_msg>>
  /\ KeepPlan
  /\ UNCHANGED nonCmd

\* survey_manager_executor lines 573 / 593: exit_code += ...
ExitCodeAfter(total, rc) == total + rc

\* survey_manager_executor lines 573 / 593, 598: send_command_recursive
\* returns, after the process has ended and the operator has answered any
\* prompt; exit_code += None raises TypeError
Process ==
  /\ pc = "process_wait"
  /\ \E r \in ProcReturns :
       IF r = NoRet
         THEN /\ pc' = "raised"
              /\ UNCHANGED <<exit_code, g_plan>>
         ELSE /\ exit_code' = ExitCodeAfter(exit_code, r[1])
              /\ pc' = IF atype = "stereo" /\ ExitCodeAfter(exit_code, r[1]) = 0
                         THEN "wait_plan" ELSE "stop_recording"
              /\ g_plan' = IF atype = "stereo"
                                /\ ExitCodeAfter(exit_code, r[1]) = 0
                             THEN g_plan ELSE "none"
  /\ KeepHistory
  /\ UNCHANGED <<shutdown, atype, run_number, cmd, result, counter,
                 ack_needed, ack_msg, unique_cmd_id, plan_status_needed,
                 plan_name, next_id, published, cb_pc, cb_msg>>
  /\ UNCHANGED polls
  /\ UNCHANGED nonCmd

\* wait_plan lines 489-492
WaitPlanEnter ==
  /\ pc = "wait_plan"
  /\ IF shutdown
       THEN /\ result' = 1
            /\ pc' = "wp_ret"
            /\ UNCHANGED counter
       ELSE /\ counter' = 0
            /\ pc' = "wp_loop"
            /\ UNCHANGED result
  /\ polls' = 0
  /\ UNCHANGED g_plan
  /\ KeepHistory
  /\ UNCHANGED <<shutdown, atype, exit_code, run_number, cmd,
                 ack_needed, ack_msg, unique_cmd_id, plan_status_needed,
                 plan_name, next_id, published, cb_pc, cb_msg>>
  /\ UNCHANGED nonCmd

\* wait_plan lines 493-497: the loop body neither sleeps nor counts
WaitPlanLoop ==
  /\ pc = "wp_loop"
  /\ IF LoopContinues(counter)
       THEN IF plan_status_needed = FALSE
              THEN /\ result' = 0
                   /\ pc' = "wp_ret"
                   /\ UNCHANGED polls
              ELSE /\ polls' = IF polls < MaxPolls THEN polls + 1 ELSE polls
                   /\ UNCHANGED <<result, pc>>
       ELSE /\ result' = 1
            /\ pc' = "wp_ret"
            /\ UNCHANGED polls
  /\ UNCHANGED g_plan
  /\ KeepHistory
  /\ UNCHANGED <<shutdown, atype, exit_code, run_number, cmd, counter,
                 ack_needed, ack_msg, unique_cmd_id, plan_status_needed,
                 plan_name, next_id, published, cb_pc, cb_msg>>
  /\ UNCHANGED nonCmd

\* survey_manager_executor line 599
WaitPlanReturn ==
  /\ pc = "wp_ret"
  /\ exit_code' = exit_code + result
  /\ pc' = "stop_recording"
  /\ KeepHistory
  /\ result' = 0
  /\ counter' = 0
  /\ UNCHANGED <<shutdown, atype, run_number, cmd,
                 ack_needed, ack_msg, unique_cmd_id, plan_status_needed,
                 plan_name, next_id, published, cb_pc, cb_msg>>
  /\ polls' = 0
  /\ g_plan' = "none"
  /\ UNCHANGED nonCmd

\* survey_manager_executor_recursive line 612, and line 630 when the test
\* fails
SurveyLoopTest ==
  /\ pc = "exec_ret"
  /\ pc' = IF exit_code # 0 /\ ~shutdown THEN "prompt" ELSE "final"
  /\ KeepHistory
  /\ UNCHANGED <<shutdown, atype, exit_code, run_number, cmd, result, counter,
                 ack_needed, ack_msg, unique_cmd_id, plan_status_needed,
                 plan_name, next_id, published, cb_pc, cb_msg>>
  /\ KeepPlan
  /\ UNCHANGED nonCmd

\* survey_manager_executor_recursive lines 613-622: the operator answers "yes"
\* to the prompt and the action is run again, with a new CommandExecutor
Rerun ==
  /\ pc = "prompt"
  /\ run_number < MaxRuns
  /\ run_number' = run_number + 1
  /\ pc' = "init"
  /\ KeepHistory
  /\ UNCHANGED <<shutdown, atype, exit_code, cmd, result, counter,
                 ack_needed, ack_msg, unique_cmd_id, plan_status_needed,
                 plan_name, next_id, published, cb_pc, cb_msg>>
  /\ KeepPlan
  /\ UNCHANGED nonCmd

\* survey_manager_executor_recursive lines 613-617, 624-630: the operator
\* answers "no" or "skip" to the prompt: no further run
Finish ==
  /\ pc = "prompt"
  /\ \E reply \in {"no", "skip"} :
       exit_code' = IF reply = "skip" THEN 0 ELSE exit_code
  /\ pc' = "final"
  /\ KeepHistory
  /\ UNCHANGED <<shutdown, atype, run_number, cmd, result, counter,
                 ack_needed, ack_msg, unique_cmd_id, plan_status_needed,
                 plan_name, next_id, published, cb_pc, cb_msg>>
  /\ KeepPlan
  /\ UNCHANGED nonCmd

\* survey_manager_executor_recursive lines 613-617, 612: any other reply
\* leads back to the loop test; read_input_once handing back None makes
\* .lower() raise AttributeError
PromptOther ==
  /\ pc = "prompt"
  /\ pc' \in {"exec_ret", "raised"}
  /\ KeepHistory
  /\ UNCHANGED <<shutdown, atype, exit_code, run_number, cmd, result, counter,
                 ack_needed, ack_msg, unique_cmd_id, plan_status_needed,
                 plan_name, next_id, published, cb_pc, cb_msg>>
  /\ KeepPlan
  /\ UNCHANGED nonCmd

\* ------------------------------------------------ subscriber thread, /mgt/ack
ExecutorAlive == pc \notin {"init", "final", "raised"}

\* ack_callback line 444, first conjunct, on delivery of msg
AckDeliver ==
  /\ ExecutorAlive
  /\ cb_pc = "idle"
  /\ \E msg \in AckMsgs :
       /\ IF ack_needed = TRUE
            THEN /\ cb_pc' = "compare"
                 /\ cb_msg' = msg
            ELSE UNCHANGED <<cb_pc, cb_msg>>
       /\ IF InWait /\ msg.cmd_id = unique_cmd_id
            THEN /\ IF g_term = NoTerm
                      THEN /\ g_term' = IF msg.status = StatusNOT
                                          THEN NoTerm ELSE msg.status
                           /\ g_not' = (g_not \/ msg.status = StatusNOT)
                           /\ g_early' = (g_early /\ sleeps <= MAX_COUNTER - 2)
                      ELSE UNCHANGED <<g_term, g_not, g_early>>
                 /\ UNCHANGED <<g_other, g_late>>
            ELSE /\ g_other' = (g_other \/ (InWait /\ ack_needed))
                 /\ g_late' = (g_late \/ (InWait /\ ack_needed
                                            /\ msg.cmd_id \in published))
                 /\ UNCHANGED <<g_term, g_not, g_early>>
  /\ UNCHANGED <<sleeps, resolved_by>>
  /\ UNCHANGED <<shutdown, pc, atype, exit_code, run_number, cmd, result,
                 counter, ack_needed, ack_msg, unique_cmd_id,
                 plan_status_needed, plan_name, next_id, published>>
  /\ KeepPlan
  /\ UNCHANGED nonCmd

\* ack_callback line 444, second conjunct
AckCompare ==
  /\ cb_pc = "compare"
  /\ cb_pc' = IF AckMatches(cb_msg) THEN "store" ELSE "idle"
  /\ KeepHistory
  /\ UNCHANGED <<shutdown, pc, atype, exit_code, run_number, cmd, result,
                 counter, ack_needed, ack_msg, unique_cmd_id,
                 plan_status_needed, plan_name, next_id, published, cb_msg>>
  /\ KeepPlan
  /\ UNCHANGED nonCmd

\* ack_callback line 445
AckStore ==
  /\ cb_pc = "store"
  /\ ack_msg' = cb_msg
  /\ cb_pc' = "clear"
  /\ KeepHistory
  /\ UNCHANGED <<shutdown, pc, atype, exit_code, run_number, cmd, result,
                 counter, ack_needed, unique_cmd_id,
                 plan_status_needed, plan_name, next_id, published, cb_msg>>
  /\ KeepPlan
  /\ UNCHANGED nonCmd

\* ack_callback line 446
AckClear ==
  /\ cb_pc = "clear"
  /\ ack_needed' = FALSE
  /\ cb_pc' = "idle"
  /\ KeepHistory
  /\ UNCHANGED <<shutdown, pc, atype, exit_code, run_number, cmd, result,
                 counter, ack_msg, unique_cmd_id,
                 plan_status_needed, plan_name, next_id, published, cb_msg>>
  /\ KeepPlan
  /\ UNCHANGED nonCmd

\* -------------------------------- subscriber thread, /mgt/executive/plan_status
PlanNames == {PlanFile, "other.fplan"}
\* ff_msgs/AckStatus: 3 = COMPLETED
PlanStatuses == {2, 3}

\* plan_status_callback line 451: self.plan_name in msg.name
PlanNameIn(pn, name) == pn = "" \/ pn = name

\* (variant: an event of another plan leaves the flag set)
PlanFlagAfterKeeps(pn, name, st) ==
  IF PlanNameIn(pn, name) THEN st # 3 ELSE TRUE

\* plan_status_callback lines 451-460: plan_status_needed after an event
\* named name with status st
PlanFlagAfter(pn, name, st) ==
  IF PlanNameIn(pn, name) THEN st # 3 ELSE FALSE

\* the main thread is between line 591 and the return of wait_plan
PlanWaitAhead ==
  pc \in {"set_plan_name", "process", "process_wait", "wait_plan", "wp_loop"}

\* plan_status_callback lines 448-460
PlanStatusDeliver ==
  /\ ExecutorAlive
  /\ plan_status_needed = TRUE
  /\ \E name \in PlanNames, st \in PlanStatuses :
       /\ plan_status_needed' = PlanFlagAfter(plan_name, name, st)
       /\ g_plan' = IF ~PlanWaitAhead THEN g_plan
                    ELSE IF ~PlanNameIn(plan_name, name) THEN "abandoned"
                    ELSE IF st = 3 THEN "completed"
                    ELSE g_plan
  /\ UNCHANGED polls
  /\ KeepHistory
  /\ UNCHANGED <<shutdown, pc, atype, exit_code, run_number, cmd, result,
                 counter, ack_needed, ack_msg, unique_cmd_id,
                 plan_name, next_id, published, cb_pc, cb_msg>>
  /\ UNCHANGED nonCmd

\* ------------------------------------------------------------------ shutdown
\* the node is shut down (signal): rospy.is_shutdown() turns True for good
SetShutdown ==
  /\ ~shutdown
  /\ shutdown' = TRUE
  /\ UNCHANGED <<cvars, pvars, rvars, lvars, xvars>>

\* ------------------------------------------------------------ initial values

InitRetryVars ==
  /\ r_level = "send_command"
  /\ r_stack = <<>>
  /\ r_repeat = ""
  /\ r_run = 1
  /\ r_ret = NoRet
  /\ r_prompts = 0
  /\ r_reads = 0
  /\ r_execs = 0
  /\ r_first = NoRet
  /\ r_last = NoRet
  /\ r_skipped = FALSE
  /\ r_mark = [raw |-> "", prompts |-> 0, execs |-> 0, yes |-> 0]

InitLevelVars ==
  /\ l_in = [results |-> <<>>, replies |-> <<>>, sd |-> 1]
  /\ l_send = <<>>
  /\ l_survey = <<>>

InitPlanEventVars ==
  /\ ps_event = [name |-> "", status |-> 0, needed |-> FALSE]
  /\ ps_count = 0

InitExecutorVars ==
  /\ e_in = [type |-> "dock", plan_path |-> TRUE, start |-> 0, proc |-> <<0>>,
             wait |-> 0, stop |-> 0]
  /\ e_out = <<>>

InitBindVars ==
  /\ b_pc = <<>>
  /\ b_fs = <<>>
  /\ b_bound = <<>>

InitExtraVars ==
  /\ InitPlanEventVars
  /\ InitExecutorVars
  /\ InitBindVars

InitProcVars ==
  /\ p_pc = "idle"
  /\ return_code = NoRet
  /\ stop_event = FALSE
  /\ proc = "none"
  /\ killed = FALSE
  /\ wo_pc = "off"
  /\ wo_output = ""
  /\ output_total = <<>>
  /\ ri_pc = "off"
  /\ ri_request = Unbound
  /\ sock_output_connected = FALSE
  /\ out_conn = "none"
  /\ console_rx = <<>>
  /\ sock_input_connected = FALSE
  /\ in_recvs = 0
  /\ in_resets = 0
  /\ stdin_written = <<>>
  /\ g_read = <<>>
  /\ g_flush = <<>>
  /\ g_reset = FALSE
  /\ once_ret = Unbound

InitCmdVars ==
  /\ pc = "init"
  /\ atype = "panorama"
  /\ exit_code = 0
  /\ run_number = 1
  /\ cmd = "none"
  /\ result = 0
  /\ counter = 0
  /\ ack_needed = FALSE
  /\ ack_msg = NoMsg
  /\ unique_cmd_id = EmptyId
  /\ plan_status_needed = FALSE
  /\ plan_name = ""
  /\ next_id = 1
  /\ published = {}
  /\ cb_pc = "idle"
  /\ cb_msg = NoMsg
  /\ sleeps = 0
  /\ g_term = NoTerm
  /\ g_not = FALSE
  /\ g_early = TRUE
  /\ g_other = FALSE
  /\ g_late = FALSE
  /\ polls = 0
  /\ g_plan = "none"
  /\ resolved_by = NoMsg

InitCmd ==
  /\ shutdown = FALSE
  /\ InitCmdVars
  /\ InitRetryVars
  /\ InitProcVars
  /\ InitLevelVars
  /\ InitExtraVars

NextCmd ==
  \/ Construct
  \/ ConstructTest
  \/ ConstructSleep
  \/ StartRecording
  \/ StopRecording
  \/ PwrEnter
  \/ PwrPublish
  \/ PwrLoop
  \/ PwrCheck
  \/ PwrStatus
  \/ PwrRearm
  \/ PwrSleep
  \/ PwrReturn
  \/ SetPlanNeeded
  \/ SetPlanName
  \/ ProcessCall
  \/ Process
  \/ WaitPlanEnter
  \/ WaitPlanLoop
  \/ WaitPlanReturn
  \/ SurveyLoopTest
  \/ Rerun
  \/ Finish
  \/ PromptOther
  \/ AckDeliver
  \/ AckCompare
  \/ AckStore
  \/ AckClear
  \/ PlanStatusDeliver
  \/ SetShutdown

SpecCmd == InitCmd /\ [][NextCmd]_vars

\* ============================================================ SpecRetry
\* send_command_recursive (lines 351-371) and
\* survey_manager_executor_recursive (lines 605-630)
Levels == {"send_command", "survey"}

\* results of one execution of the action (send_command / survey_manager_executor)
ActionResults == {0, 1, 2}

\* read_input_once returned no value (connection reset, or stop event set)
NoneValue == "<None>"
\* what read_input_once can hand back: the decoded bytes of one recv,
\* "" when the peer closed the connection, or None
ReadValues == {"yes", "no", "skip", "YES", "No", "sKiP", "maybe", "yes\n", "",
               NoneValue}

\* str.lower()
Lower(v) ==
  CASE v = "YES" -> "yes"
    [] v = "No" -> "no"
    [] v = "sKiP" -> "skip"
    [] OTHER -> v

\* (variant: the loop does not look at the exit code)
LoopCondAlways(ec) == ~shutdown

\* (variant: the loop does not look at the shutdown status)
LoopCondNoShutdown(ec) == ec # 0

\* lines 357 / 612: while exit_code != 0 and not rospy.is_shutdown()
LoopCond(ec) == ec # 0 /\ ~shutdown

\* (variant: "no" taken for "yes")
BranchNoRepeats(rep) ==
  IF rep = "yes" THEN "recurse"
  ELSE IF rep = "no" THEN "recurse"
  ELSE IF rep = "skip" THEN "skip"
  ELSE "again"

\* (variant: "no" taken for "skip")
BranchNoSkips(rep) ==
  IF rep = "yes" THEN "recurse"
  ELSE IF rep = "no" THEN "skip"
  ELSE IF rep = "skip" THEN "skip"
  ELSE "again"

\* lines 363-370 / 618-628: the branch taken on the normalised reply
Branch(rep) ==
  IF rep = "yes" THEN "recurse"
  ELSE IF rep = "no" THEN "keep"
  ELSE IF rep = "skip" THEN "skip"
  ELSE "again"

\* (variant: "skip" leaves the loop without forcing the result)
SkipExitKeeps(ec) == ec

\* lines 369 / 627: exit_code = 0
SkipExit(ec) == 0

\* (variant: the break after the recursive call is missing)
AfterRecursionLoops == "loop"

\* lines 364-365 / 620-623: after the recursive call, break
AfterRecursion == "ret"

RDepth == Len(r_stack)
RTop == r_stack[RDepth]
RSetTop(f) == [r_stack EXCEPT ![RDepth] = f]
RRunning == RDepth > 0 /\ r_ret = NoRet

\* the top-level call is made
RetryCall ==
  /\ r_stack = <<>>
  /\ r_ret = NoRet
  /\ \E l \in Levels : r_level' = l
  /\ r_stack' = <<[pc |-> "exec", exit_code |-> NoRet]>>
  /\ UNCHANGED <<r_repeat, r_run, r_ret, r_prompts, r_reads, r_execs, r_first,
                 r_last, r_skipped, r_mark>>
  /\ UNCHANGED <<shutdown, cvars, pvars, lvars, xvars>>

\* lines 354 / 608-610: the action is executed and gives its result
RetryExec ==
  /\ RRunning
  /\ RTop.pc = "exec"
  /\ \E res \in ActionResults :
       /\ r_stack' = RSetTop([pc |-> "loop", exit_code |-> res])
       /\ r_last' = <<res>>
       /\ r_first' = IF r_execs = 0 THEN <<res>> ELSE r_first
  /\ r_execs' = r_execs + 1
  /\ UNCHANGED <<r_level, r_repeat, r_run, r_ret, r_prompts, r_reads,
                 r_skipped, r_mark>>
  /\ UNCHANGED <<shutdown, cvars, pvars, lvars, xvars>>

\* lines 357 / 612: the loop test
RetryLoop ==
  /\ RRunning
  /\ RTop.pc = "loop"
  /\ r_stack' = RSetTop([RTop EXCEPT !.pc =
                   IF LoopCond(RTop.exit_code) THEN "prompt" ELSE "ret"])
  /\ UNCHANGED <<r_level, r_repeat, r_run, r_ret, r_prompts, r_reads, r_execs,
                 r_first, r_last, r_skipped, r_mark>>
  /\ UNCHANGED <<shutdown, cvars, pvars, lvars, xvars>>

\* lines 358-360 / 613-615: write_output_once(prompt)
RetryPrompt ==
  /\ RRunning
  /\ RTop.pc = "prompt"
  /\ r_prompts < MaxPrompts
  /\ r_prompts' = r_prompts + 1
  /\ r_stack' = RSetTop([RTop EXCEPT !.pc = "read"])
  /\ UNCHANGED <<r_level, r_repeat, r_run, r_ret, r_reads, r_execs,
                 r_first, r_last, r_skipped, r_mark>>
  /\ UNCHANGED <<shutdown, cvars, pvars, lvars, xvars>>

\* lines 361 / 616: repeat = read_input_once().lower(); None has no lower()
RetryRead ==
  /\ RRunning
  /\ RTop.pc = "read"
  /\ r_reads' = r_reads + 1
  /\ \E v \in ReadValues :
       /\ r_mark' = [raw |-> v, prompts |-> r_prompts, execs |-> r_execs,
                     yes |-> IF v # NoneValue /\ Lower(v) = "yes"
                               THEN r_mark.yes + 1 ELSE r_mark.yes]
       /\ IF v = NoneValue
            THEN /\ r_stack' = RSetTop([RTop EXCEPT !.pc = "raised"])
                 /\ UNCHANGED r_repeat
            ELSE /\ r_stack' = RSetTop([RTop EXCEPT !.pc = "branch"])
                 /\ r_repeat' = Lower(v)
  /\ UNCHANGED <<r_level, r_run, r_ret, r_prompts, r_execs,
                 r_first, r_last, r_skipped>>
  /\ UNCHANGED <<shutdown, cvars, pvars, lvars, xvars>>

\* lines 363-370 / 618-628
RetryBranch ==
  /\ RRunning
  /\ RTop.pc = "branch"
  /\ LET b == Branch(r_repeat) IN
       /\ b = "recurse" => RDepth < MaxDepth
       /\ r_stack' =
            IF b = "recurse"
              THEN Append(RSetTop([RTop EXCEPT !.pc = "call"]),
                          [pc |-> "exec", exit_code |-> NoRet])
            ELSE IF b = "keep" THEN RSetTop([RTop EXCEPT !.pc = "ret"])
            ELSE IF b = "skip"
              THEN RSetTop([pc |-> "ret", exit_code |-> SkipExit(RTop.exit_code)])
            ELSE RSetTop([RTop EXCEPT !.pc = "loop"])
       /\ r_run' = IF b = "recurse" /\ r_level = "survey"
                     THEN r_run + 1 ELSE r_run
       /\ r_skipped' = (r_skipped \/ b = "skip")
  /\ UNCHANGED <<r_level, r_repeat, r_ret, r_prompts, r_reads, r_execs,
                 r_first, r_last, r_mark>>
  /\ UNCHANGED <<shutdown, cvars, pvars, lvars, xvars>>

\* lines 371 / 630: return exit_code, to the calling invocation (lines 364 /
\* 620: it adopts the value) or to the caller of the top-level call
RetryReturn ==
  /\ RRunning
  /\ RTop.pc = "ret"
  /\ IF RDepth = 1
       THEN /\ r_ret' = <<RTop.exit_code>>
            /\ UNCHANGED r_stack
       ELSE /\ r_stack' = [SubSeq(r_stack, 1, RDepth - 1) EXCEPT ![RDepth - 1] =
                             [pc |-> AfterRecursion, exit_code |-> RTop.exit_code]]
            /\ UNCHANGED r_ret
  /\ UNCHANGED <<r_level, r_repeat, r_run, r_prompts, r_reads, r_execs,
                 r_first, r_last, r_skipped, r_mark>>
  /\ UNCHANGED <<shutdown, cvars, pvars, lvars, xvars>>

InitRetry ==
  /\ shutdown \in BOOLEAN
  /\ InitCmdVars
  /\ InitRetryVars
  /\ InitProcVars
  /\ InitLevelVars
  /\ InitExtraVars

NextRetry ==
  \/ RetryCall
  \/ RetryExec
  \/ RetryLoop
  \/ RetryPrompt
  \/ RetryRead
  \/ RetryBranch
  \/ RetryReturn
  \/ SetShutdown

SpecRetry == InitRetry /\ [][NextRetry]_vars

\* =========================================================== SpecLevels
\* send_command_recursive (lines 351-371) and
\* survey_manager_executor_recursive (lines 605-630), each computed from its
\* own code on the same action results, operator replies and shutdown time.
\* action results given to one run
MaxResults == 3
\* operator replies given to one run
MaxReplies == 2

\* lines 358-360 / 613-615: the text handed to write_output_once
PromptText == "Exit code non-zero: Do you want to repeat the survey? (yes/no/skip): "

LevelReplies == {"yes", "no", "skip", "YES", "maybe", "", NoneValue}

SeqsUpTo(S, n) == UNION {[1..k -> S] : k \in 0..n}

\* rospy.is_shutdown() at the k-th loop test of a run shut down from test sd
IsShutdownAt(k, sd) == k >= sd

\* the run so far: inputs left, loop tests made, prompts written, executions
StartOf(in) ==
  [results |-> in.results, replies |-> in.replies, sd |-> in.sd,
   tests |-> 0, prompts |-> <<>>, execs |-> 0, runs |-> <<>>]

\* how a run ends: it returned ret, it raised, or it waits for an input
\* that was not given
Ended(how, ret, st) ==
  [status |-> how, ret |-> ret, prompts |-> st.prompts, execs |-> st.execs,
   results |-> st.results, replies |-> st.replies, runs |-> st.runs]

\* line 357: while code != 0 and not rospy.is_shutdown()
SendLoopCond(ec, down) == ec # 0 /\ ~down

\* (variant: the survey level does not look at the shutdown status)
SurveyLoopCondNoShutdown(ec, down) == ec # 0

\* line 612: while code != 0 and not rospy.is_shutdown()
SurveyLoopCond(ec, down) == ec # 0 /\ ~down

RECURSIVE SendCommandRecursive(_)
RECURSIVE SendCommandLoop(_, _)

\* lines 357-371
SendCommandLoop(code, st) ==
  LET t == [st EXCEPT !.tests = @ + 1] IN
  IF SendLoopCond(code, IsShutdownAt(t.tests, t.sd))
    THEN LET w == [t EXCEPT !.prompts = Append(@, PromptText)] IN
         IF w.replies = <<>> THEN Ended("waiting", code, w)
         ELSE LET v == Head(w.replies)
                  r == [w EXCEPT !.replies = Tail(@)]
              IN IF v = NoneValue THEN Ended("raised", code, r)
                 ELSE LET repeat == Lower(v) IN
                      IF repeat = "yes" THEN SendCommandRecursive(r)
                      ELSE IF repeat = "no" THEN Ended("returned", code, r)
                      ELSE IF repeat = "skip" THEN Ended("returned", 0, r)
                      ELSE SendCommandLoop(code, r)
    ELSE Ended("returned", code, t)

\* lines 351-371
SendCommandRecursive(st) ==
  IF st.results = <<>> THEN Ended("waiting", 0, st)
  ELSE SendCommandLoop(Head(st.results),
                       [st EXCEPT !.results = Tail(@), !.execs = @ + 1])

RECURSIVE SurveyManagerExecutorRecursive(_, _)
RECURSIVE SurveyManagerExecutorLoop(_, _, _)

\* lines 612-630
SurveyManagerExecutorLoop(code, run, st) ==
  LET t == [st EXCEPT !.tests = @ + 1] IN
  IF SurveyLoopCond(code, IsShutdownAt(t.tests, t.sd))
    THEN LET w == [t EXCEPT !.prompts = Append(@, PromptText)] IN
         IF w.replies = <<>> THEN Ended("waiting", code, w)
         ELSE LET v == Head(w.replies)
                  r == [w EXCEPT !.replies = Tail(@)]
              IN IF v = NoneValue THEN Ended("raised", code, r)
                 ELSE LET repeat == Lower(v) IN
                      IF repeat = "yes"
                        THEN SurveyManagerExecutorRecursive(run + 1, r)
                      ELSE IF repeat = "no" THEN Ended("returned", code, r)
                      ELSE IF repeat = "skip" THEN Ended("returned", 0, r)
                      ELSE SurveyManagerExecutorLoop(code, run, r)
    ELSE Ended("returned", code, t)

\* lines 605-630; the action is survey_manager_executor called with "run<n>"
SurveyManagerExecutorRecursive(run, st) ==
  IF st.results = <<>> THEN Ended("waiting", 0, st)
  ELSE SurveyManagerExecutorLoop(
         Head(st.results), run,
         [st EXCEPT !.results = Tail(@), !.execs = @ + 1,
                    !.runs = Append(@, run)])

\* what a caller and the operator see of a run
Observed(out) ==
  [status |-> out.status, ret |-> out.ret, prompts |-> out.prompts,
   execs |-> out.execs, results |-> out.results, replies |-> out.replies]

\* process_executor.send_command_recursive(command) is run on the inputs
RunSendLevel ==
  /\ l_send = <<>>
  /\ l_send' = <<SendCommandRecursive(StartOf(l_in))>>
  /\ UNCHANGED <<l_in, l_survey>>
  /\ UNCHANGED <<shutdown, cvars, pvars, rvars, xvars>>

\* survey_manager_executor_recursive(command_names, 1, ...) is run on them
RunSurveyLevel ==
  /\ l_survey = <<>>
  /\ l_survey' = <<SurveyManagerExecutorRecursive(1, StartOf(l_in))>>
  /\ UNCHANGED <<l_in, l_send>>
  /\ UNCHANGED <<shutdown, cvars, pvars, rvars, xvars>>

InitLevels ==
  /\ shutdown = FALSE
  /\ InitCmdVars
  /\ InitRetryVars
  /\ InitProcVars
  /\ InitExtraVars
  /\ l_in \in [results : SeqsUpTo(ActionResults, MaxResults),
               replies : SeqsUpTo(LevelReplies, MaxReplies),
               sd : 1..(MaxReplies + 2)]
  /\ l_send = <<>>
  /\ l_survey = <<>>

NextLevels ==
  \/ RunSendLevel
  \/ RunSurveyLevel

SpecLevels == InitLevels /\ [][NextLevels]_vars

\* ======================================================= SpecPlanStatus
\* plan_status_callback (lines 448-460) event by event, next to the main
\* thread of survey_manager_executor at lines 591-592 (stereo, after a
\* start_recording that succeeded).
\* events handed to the callback in one run
MaxEvents == 3

\* ff_msgs/AckStatus: QUEUED = 0, EXECUTING = 1, REQUEUED = 2, COMPLETED = 3;
\* 4 stands for any other value of the field
EventStatuses == 0..4

\* (variant: the callback does not look at plan_status_needed)
PlanStatusCallbackUnguarded(needed, pn, name, st) == PlanFlagAfter(pn, name, st)

\* plan_status_callback lines 449-460: plan_status_needed after the callback
\* has run on an event named name with step status st
PlanStatusCallback(needed, pn, name, st) ==
  IF needed = TRUE THEN PlanFlagAfter(pn, name, st) ELSE needed

\* plan_status_callback lines 448-460, on delivery of an event
PlanStatusEvent ==
  /\ ps_count < MaxEvents
  /\ \E name \in PlanNames, st \in EventStatuses :
       /\ plan_status_needed' =
            PlanStatusCallback(plan_status_needed, plan_name, name, st)
       /\ ps_event' = [name |-> name, status |-> st,
                       needed |-> plan_status_needed]
  /\ ps_count' = ps_count + 1
  /\ KeepHistory
  /\ KeepPlan
  /\ UNCHANGED <<shutdown, pc, atype, exit_code, run_number, cmd, result,
                 counter, ack_needed, ack_msg, unique_cmd_id,
                 plan_name, next_id, published, cb_pc, cb_msg>>
  /\ UNCHANGED <<pvars, rvars, lvars, evars, bvars>>

\* the CommandExecutor as __init__ leaves it, the main thread about to run
\* line 591 of a stereo action
InitPlanStatus ==
  /\ shutdown = FALSE
  /\ pc = "set_plan_needed"
  /\ atype = "stereo"
  /\ exit_code = 0
  /\ run_number = 1
  /\ cmd = "start"
  /\ result = 0
  /\ counter = 0
  /\ ack_needed = FALSE
  /\ ack_msg = NoMsg
  /\ unique_cmd_id = EmptyId
  /\ plan_status_needed = FALSE
  /\ plan_name = ""
  /\ next_id = 1
  /\ published = {}
  /\ cb_pc = "idle"
  /\ cb_msg = NoMsg
  /\ sleeps = 0
  /\ g_term = NoTerm
  /\ g_not = FALSE
  /\ g_early = TRUE
  /\ g_other = FALSE
  /\ g_late = FALSE
  /\ polls = 0
  /\ g_plan = "none"
  /\ resolved_by = NoMsg
  /\ InitRetryVars
  /\ InitProcVars
  /\ InitLevelVars
  /\ InitExtraVars

NextPlanStatus ==
  \/ SetPlanNeeded
  \/ SetPlanName
  \/ PlanStatusEvent

SpecPlanStatus == InitPlanStatus /\ [][NextPlanStatus]_vars

\* ========================================================= SpecExecutor
\* survey_manager_executor (lines 500-602) as a function of args["type"] and
\* of what each step returns when it is called.
ActionTypes == {"dock", "undock", "move", "panorama", "stereo"}

\* what publish_and_wait_response and wait_plan return
CommandResults == {0, 1}

\* what send_command_recursive returns, held as <<v>>: the exit status
\* Popen.poll() gave (-N for a process ended by signal N), 0 after "skip",
\* or None (<<>>) when send_command returned with the process still running
ProcessResults == ProcReturns

\* get_ops_plan_path() (lines 97-121) found a plan directory; it gives None
\* when there is none
PlanPathFound == BOOLEAN

\* a step that was called and what it returned, held as <<v>>
Step(name, res) == [step |-> name, result |-> res]

\* survey_manager_executor returns exit_code
Returned(code, steps) == [ret |-> <<code>>, raised |-> FALSE, steps |-> steps]

\* survey_manager_executor raises TypeError: nothing is returned
Raised(steps) == [ret |-> NoRet, raised |-> TRUE, steps |-> steps]

\* lines 565-602: panorama and stereo.  For stereo the command line of lines
\* 594-596 is built before send_command_recursive is called, and
\* os.path.join(None, ...) raises TypeError; exit_code += None (lines 573 /
\* 593) raises TypeError
RecordedSurvey(in) ==
  LET c1 == 0 + in.start
      s1 == <<Step("start_recording", <<in.start>>)>>
  IN IF c1 # 0 THEN Returned(c1, s1)
     ELSE IF in.type = "stereo" /\ ~in.plan_path THEN Raised(s1)
     ELSE LET s2 == s1 \o <<Step("process", in.proc)>> IN
          IF in.proc = NoRet THEN Raised(s2)
          ELSE LET c2 == ExitCodeAfter(c1, in.proc[1])
                   waits == in.type = "stereo" /\ c2 = 0
                   c3 == IF waits THEN c2 + in.wait ELSE c2
               IN Returned(c3 + in.stop,
                           s2 \o (IF waits THEN <<Step("wait_plan", <<in.wait>>)>>
                                            ELSE <<>>)
                              \o <<Step("stop_recording", <<in.stop>>)>>)

\* lines 532-602; change_exposure and change_map (lines 433-441) return 0;
\* exit_code += None (lines 536 / 544 / 549) raises TypeError
SurveyManagerExecutor(in) ==
  IF in.type \in {"dock", "undock", "move"}
    THEN IF in.proc = NoRet
           THEN Raised(<<Step("process", in.proc)>>)
           ELSE Returned(ExitCodeAfter(0, in.proc[1]),
                         <<Step("process", in.proc)>>)
    ELSE RecordedSurvey(in)

\* survey_manager_executor is run on the inputs
RunExecutor ==
  /\ e_out = <<>>
  /\ e_out' = <<SurveyManagerExecutor(e_in)>>
  /\ UNCHANGED e_in
  /\ UNCHANGED <<shutdown, cvars, pvars, rvars, lvars, psvars, bvars>>

InitExecutor ==
  /\ shutdown = FALSE
  /\ InitCmdVars
  /\ InitRetryVars
  /\ InitProcVars
  /\ InitLevelVars
  /\ InitPlanEventVars
  /\ InitBindVars
  /\ e_in \in [type : ActionTypes, plan_path : PlanPathFound,
               start : CommandResults, proc : ProcessResults,
               wait : CommandResults, stop : CommandResults]
  /\ e_out = <<>>

NextExecutor == RunExecutor

SpecExecutor == InitExecutor /\ [][NextExecutor]_vars

\* ============================================================= SpecBind
\* ProcessExecutor.__init__ (lines 123-156) run by several sessions (programs)
\* for the same robot name, on one file system.
\* sessions started for the robot name
MaxSessions == 2

Sessions == 1..MaxSessions

\* "/tmp/input_" + robot_name and "/tmp/output_" + robot_name
Paths == {"input", "output"}

\* no file at a path / a file left by a session that ended before
NoFile == 0
StaleFile == -1

\* the steps of __init__, in the order of lines 128-151: both paths are
\* looked at and cleaned (lines 128-131), then both sockets are bound (lines
\* 139, 150)
PathOf(at) == IF at \in {"in_exists", "in_remove", "in_bind"}
                THEN "input" ELSE "output"
\* lines 129 / 131: the removal that follows a test that found a file
RemoveOf(at) == IF at = "in_exists" THEN "in_remove" ELSE "out_remove"
\* what follows a test that found no file, or a removal: the test of line
\* 130 after the input path, the bind of line 139 after the output path
AfterClean(at) == IF at \in {"in_exists", "in_remove"}
                    THEN "out_exists" ELSE "in_bind"
\* what follows a bind: the bind of line 150 after that of line 139
AfterBind(at) == IF at = "in_bind" THEN "out_bind" ELSE "ready"

\* command_astrobee line 651: ProcessExecutor(args["robot"]); lines 124-125
BindStart(s) ==
  /\ b_pc[s] = "new"
  /\ b_pc' = [b_pc EXCEPT ![s] = "in_exists"]
  /\ UNCHANGED <<b_fs, b_bound>>
  /\ UNCHANGED <<shutdown, cvars, pvars, rvars, lvars, psvars, evars>>

\* lines 128 / 130: os.path.exists(path)
BindExists(s) ==
  /\ b_pc[s] \in {"in_exists", "out_exists"}
  /\ b_pc' = [b_pc EXCEPT ![s] =
                IF b_fs[PathOf(b_pc[s])] # NoFile
                  THEN RemoveOf(b_pc[s]) ELSE AfterClean(b_pc[s])]
  /\ UNCHANGED <<b_fs, b_bound>>
  /\ UNCHANGED <<shutdown, cvars, pvars, rvars, lvars, psvars, evars>>

\* lines 129 / 131: os.remove(path) unlinks the file whoever created it; it
\* raises FileNotFoundError when the file is gone by now
BindRemove(s) ==
  /\ b_pc[s] \in {"in_remove", "out_remove"}
  /\ IF b_fs[PathOf(b_pc[s])] # NoFile
       THEN /\ b_fs' = [b_fs EXCEPT ![PathOf(b_pc[s])] = NoFile]
            /\ b_pc' = [b_pc EXCEPT ![s] = AfterClean(b_pc[s])]
            /\ UNCHANGED b_bound
       ELSE /\ b_pc' = [b_pc EXCEPT ![s] = "raised"]
            /\ b_bound' = [b_bound EXCEPT ![s] = {}]
            /\ UNCHANGED b_fs
  /\ UNCHANGED <<shutdown, cvars, pvars, rvars, lvars, psvars, evars>>

\* lines 137-140 / 148-151: bind creates the file and listen follows; bind
\* raises OSError (address already in use) when a file is there
BindSocket(s) ==
  /\ b_pc[s] \in {"in_bind", "out_bind"}
  /\ IF b_fs[PathOf(b_pc[s])] = NoFile
       THEN /\ b_fs' = [b_fs EXCEPT ![PathOf(b_pc[s])] = s]
            /\ b_bound' = [b_bound EXCEPT ![s] = @ \cup {PathOf(b_pc[s])}]
            /\ b_pc' = [b_pc EXCEPT ![s] = AfterBind(b_pc[s])]
       ELSE /\ b_pc' = [b_pc EXCEPT ![s] = "raised"]
            /\ b_bound' = [b_bound EXCEPT ![s] = {}]
            /\ UNCHANGED b_fs
  /\ UNCHANGED <<shutdown, cvars, pvars, rvars, lvars, psvars, evars>>

\* the session ends (lines 158-161, or the program is killed): its sockets
\* are closed, the files stay
BindEnd(s) ==
  /\ b_pc[s] = "ready"
  /\ b_pc' = [b_pc EXCEPT ![s] = "ended"]
  /\ b_bound' = [b_bound EXCEPT ![s] = {}]
  /\ UNCHANGED b_fs
  /\ UNCHANGED <<shutdown, cvars, pvars, rvars, lvars, psvars, evars>>

InitBind ==
  /\ shutdown = FALSE
  /\ InitCmdVars
  /\ InitRetryVars
  /\ InitProcVars
  /\ InitLevelVars
  /\ InitPlanEventVars
  /\ InitExecutorVars
  /\ b_pc = [s \in Sessions |-> "new"]
  /\ b_fs \in [Paths -> {NoFile, StaleFile}]
  /\ b_bound = [s \in Sessions |-> {}]

NextBind ==
  \E s \in Sessions :
    \/ BindStart(s)
    \/ BindExists(s)
    \/ BindRemove(s)
    \/ BindSocket(s)
    \/ BindEnd(s)

SpecBind == InitBind /\ [][NextBind]_vars

\* ============================================================= SpecProc
\* ProcessExecutor.send_command (lines 301-349) with thread_write_output
\* (lines 185-230) and thread_read_input (lines 260-299).  A loop test and
\* the wait that follows it (sleep, accept, recv) are separate steps; what a
\* socket or the pipe hands over is drawn at the step where the call ends.
\* an ordinary line of output; it holds a non-ASCII character
AccentLine == "café"
PosLine == "pos: x: 1.0"
\* bytes that are not valid UTF-8: readline() raises UnicodeDecodeError
BadLine == "<0xff>"
Lines == {AccentLine, PosLine, BadLine}
InLines == {"go"}

\* line 198: output.startswith("pos: x:")
StartsWithPos(l) == l = PosLine

\* str.encode("ascii", errors="replace")
Encode(l) == IF l = AccentLine THEN "caf?" ELSE l

EncodeSeq(ls) == [i \in 1..Len(ls) |-> Encode(ls[i])]

\* line 198: the lines appended to output_total
Recorded(l) == l # "" /\ ~StartsWithPos(l)

\* lines 210-214: what is sent when the console's connection is accepted
FlushPayload(total, output) == total

\* (variant: the threads are not waited for)
JoinWaitsSkipped(thread_pc) == TRUE

\* (variant: join returns for a thread that still runs)
JoinWaitsStarted(thread_pc) == thread_pc # "off"

\* lines 343-345: Thread.join() returns once the thread has ended
JoinWaits(thread_pc) == thread_pc = "done"

p_main == <<p_pc, return_code, stop_event, once_ret>>
p_proc == <<proc, killed>>
p_wo == <<wo_pc, wo_output, output_total>>
p_ri == <<ri_pc, ri_request>>
p_out == <<sock_output_connected, out_conn, console_rx>>
p_in == <<sock_input_connected, in_recvs, in_resets>>
p_g == <<g_read, g_flush, g_reset>>
nonProc == <<cvars, rvars, lvars, xvars>>

SessionOver == p_pc \in {"returned", "raised"}

\* ---- main thread
\* lines 302-303
SendCommandCall ==
  /\ p_pc = "idle"
  /\ p_pc' = "popen"
  /\ return_code' = <<1>>
  /\ UNCHANGED <<stop_event, p_proc, p_wo, p_ri, p_out, p_in, p_g, stdin_written>>
  /\ UNCHANGED once_ret
  /\ UNCHANGED <<shutdown, nonProc>>

\* lines 307-316: subprocess.Popen starts the process, or raises
Popen ==
  /\ p_pc = "popen"
  /\ \/ /\ proc' = "running"
        /\ p_pc' = "start_in"
     \/ /\ p_pc' = "except"
        /\ UNCHANGED proc
  /\ UNCHANGED <<return_code, stop_event, killed,
                 p_wo, p_ri, p_out, p_in, p_g, stdin_written>>
  /\ UNCHANGED once_ret
  /\ UNCHANGED <<shutdown, nonProc>>

\* lines 319-322
StartInputThread ==
  /\ p_pc = "start_in"
  /\ ri_pc' = "outer"
  /\ ri_request' = Unbound
  /\ p_pc' = "start_out"
  /\ UNCHANGED <<return_code, stop_event, p_proc, p_wo, p_out, p_in, p_g,
                 stdin_written>>
  /\ UNCHANGED once_ret
  /\ UNCHANGED <<shutdown, nonProc>>

\* lines 323-326 (and line 188 of the thread)
StartOutputThread ==
  /\ p_pc = "start_out"
  /\ wo_pc' = "top"
  /\ output_total' = <<>>
  /\ p_pc' = "wait"
  /\ UNCHANGED <<return_code, stop_event, p_proc, wo_output, p_ri, p_out, p_in,
                 p_g, stdin_written>>
  /\ UNCHANGED once_ret
  /\ UNCHANGED <<shutdown, nonProc>>

\* line 329: the loop goes on while the output thread is alive and the
\* process runs
WaitLoopCond == wo_pc # "done" /\ proc = "running"

\* line 329: the loop test
WaitLoopTest ==
  /\ p_pc = "wait"
  /\ p_pc' = IF WaitLoopCond THEN "sleep" ELSE "poll"
  /\ UNCHANGED <<return_code, stop_event, p_proc, p_wo, p_ri, p_out, p_in, p_g,
                 stdin_written>>
  /\ UNCHANGED once_ret
  /\ UNCHANGED <<shutdown, nonProc>>

\* line 330: rospy.sleep(1) ends.  It returns and the loop test is made
\* again; when the node has been shut down by then, the sleep raises
\* ROSInterruptException if the node runs on simulated time, and returns as
\* usual if it runs on wall-clock time
WaitSleep ==
  /\ p_pc = "sleep"
  /\ \/ p_pc' = "wait"
     \/ /\ shutdown
        /\ p_pc' = "except"
  /\ UNCHANGED <<return_code, stop_event, p_proc, p_wo, p_ri, p_out, p_in, p_g,
                 stdin_written>>
  /\ UNCHANGED once_ret
  /\ UNCHANGED <<shutdown, nonProc>>

\* line 332: return_code = process.poll(), the exit status of the process,
\* or None while it runs
PollReturnCode ==
  /\ p_pc = "poll"
  /\ IF proc = "exited"
       THEN \E rc \in ProcCodes : return_code' = <<rc>>
       ELSE return_code' = NoRet
  /\ p_pc' = "finally"
  /\ UNCHANGED <<stop_event, p_proc, p_wo, p_ri, p_out, p_in, p_g, stdin_written>>
  /\ UNCHANGED once_ret
  /\ UNCHANGED <<shutdown, nonProc>>

\* lines 334-338: process.kill(); with process unbound (Popen raised) the
\* statement raises UnboundLocalError and the finally clause runs next
ExceptKill ==
  /\ p_pc = "except"
  /\ IF proc = "none"
       THEN UNCHANGED <<proc, killed>>
       ELSE /\ proc' = "exited"
            /\ killed' = TRUE
  /\ p_pc' = "finally"
  /\ UNCHANGED <<return_code, stop_event, p_wo, p_ri, p_out,
                 p_in, p_g, stdin_written>>
  /\ UNCHANGED once_ret
  /\ UNCHANGED <<shutdown, nonProc>>

\* lines 342-343: the stop event is set; output_thread.is_alive() raises
\* UnboundLocalError when the thread object was never created
FinallySetStop ==
  /\ p_pc = "finally"
  /\ stop_event' = TRUE
  /\ p_pc' = IF wo_pc = "off" THEN "raised" ELSE "join_out"
  /\ UNCHANGED <<return_code, p_proc, p_wo, p_ri, p_out, p_in, p_g, stdin_written>>
  /\ UNCHANGED once_ret
  /\ UNCHANGED <<shutdown, nonProc>>

\* lines 343-344
JoinOutput ==
  /\ p_pc = "join_out"
  /\ JoinWaits(wo_pc)
  /\ p_pc' = "join_in"
  /\ UNCHANGED <<return_code, stop_event, p_proc, p_wo, p_ri, p_out, p_in, p_g,
                 stdin_written>>
  /\ UNCHANGED once_ret
  /\ UNCHANGED <<shutdown, nonProc>>

\* line 345
JoinInput ==
  /\ p_pc = "join_in"
  /\ JoinWaits(ri_pc)
  /\ p_pc' = "clear"
  /\ UNCHANGED <<return_code, stop_event, p_proc, p_wo, p_ri, p_out, p_in, p_g,
                 stdin_written>>
  /\ UNCHANGED once_ret
  /\ UNCHANGED <<shutdown, nonProc>>

\* lines 348-349
ClearAndReturn ==
  /\ p_pc = "clear"
  /\ stop_event' = FALSE
  /\ p_pc' = "returned"
  /\ UNCHANGED <<return_code, p_proc, p_wo, p_ri, p_out, p_in, p_g, stdin_written>>
  /\ UNCHANGED once_ret
  /\ UNCHANGED <<shutdown, nonProc>>

\* ---- the external process exits by itself
ProcExit ==
  /\ proc = "running"
  /\ proc' = "exited"
  /\ UNCHANGED <<killed, p_main, p_wo, p_ri, p_out, p_in, p_g, stdin_written>>
  /\ UNCHANGED <<shutdown, nonProc>>

\* ---- thread_write_output
\* line 190: while not self._stop_event.is_set() and process.poll() is None
WoLoopTest ==
  /\ wo_pc = "top"
  /\ wo_pc' = IF stop_event \/ proc # "running" THEN "done" ELSE "readline"
  /\ UNCHANGED <<wo_output, output_total, p_main, p_proc, p_ri, p_out, p_in, p_g,
                 stdin_written>>
  /\ UNCHANGED <<shutdown, nonProc>>

\* line 193: the non-blocking readline, which gives "" when nothing is
\* there, or the next line the process wrote; a decoding error ends the
\* thread through the except clause of lines 228-230
WoReadline ==
  /\ wo_pc = "readline"
  /\ \/ /\ wo_output' = ""
        /\ wo_pc' = "postread"
     \/ /\ Len(g_read) < MaxLines
        /\ \E l \in Lines :
             IF l = BadLine
               THEN /\ wo_pc' = "done"
                    /\ UNCHANGED wo_output
               ELSE /\ wo_output' = l
                    /\ wo_pc' = "postread"
  /\ UNCHANGED <<output_total, p_main, p_proc, p_ri, p_out, p_in, p_g,
                 stdin_written>>
  /\ UNCHANGED <<shutdown, nonProc>>

\* lines 194-200
WoPostRead ==
  /\ wo_pc = "postread"
  /\ IF proc # "running" \/ stop_event
       THEN /\ wo_pc' = "done"
            /\ UNCHANGED <<output_total, g_read, g_flush>>
       ELSE IF wo_output = ""
         THEN /\ wo_pc' = "top"
              /\ UNCHANGED <<output_total, g_read, g_flush>>
         ELSE /\ output_total' = IF Recorded(wo_output)
                                   THEN Append(output_total, wo_output)
                                   ELSE output_total
              /\ g_read' = Append(g_read, wo_output)
              /\ g_flush' = <<>>
              /\ wo_pc' = "send"
  /\ UNCHANGED <<wo_output, p_main, p_proc, p_ri, p_out, p_in, stdin_written,
                 g_reset>>
  /\ UNCHANGED <<shutdown, nonProc>>

\* lines 204-209: accept gives a console's connection, or socket.timeout and
\* continue; lines 217-220: send of the new line, cut to CHUNK_SIZE bytes, on
\* the non-blocking connection already there.  With the console there the
\* line is delivered, or delivered in part only and unnoticed (cut at line
\* 219, or by the room left in the socket buffer), or send raises
\* BlockingIOError since the console has not emptied the buffer; with the
\* console gone send fails, or goes unnoticed
WoSend ==
  /\ wo_pc = "send"
  /\ IF ~sock_output_connected
       THEN \/ /\ wo_pc' = "top"
               /\ UNCHANGED p_out
            \/ /\ out_conn' = "open"
               /\ console_rx' = <<>>
               /\ sock_output_connected' = TRUE
               /\ wo_pc' = "flush"
       ELSE \/ /\ out_conn = "open"
               /\ console_rx' = Append(console_rx, Encode(wo_output))
               /\ wo_pc' = "top"
               /\ UNCHANGED <<sock_output_connected, out_conn>>
            \/ /\ wo_pc' = "sleep2"
               /\ UNCHANGED p_out
            \/ /\ wo_pc' = "top"
               /\ UNCHANGED p_out
  /\ UNCHANGED <<wo_output, output_total, p_main, p_proc, p_ri, p_in, p_g,
                 stdin_written>>
  /\ UNCHANGED <<shutdown, nonProc>>

\* lines 210-214: sendall of the history, chunk by chunk, on the connection
\* made non-blocking at line 207.  The console receives all of it, or, when
\* the history does not fit the socket buffer, the start of it and sendall
\* raises BlockingIOError, caught at line 223; with nothing recorded the loop
\* of line 212 runs zero times: nothing is sent, and nothing fails even when
\* the console is gone already
WoFlush ==
  /\ wo_pc = "flush"
  /\ LET payload == EncodeSeq(FlushPayload(output_total, wo_output)) IN
       \/ /\ out_conn = "open" \/ payload = <<>>
          /\ console_rx' = console_rx \o payload
          /\ g_flush' = IF out_conn = "open" THEN <<payload>> ELSE g_flush
          /\ wo_pc' = "top"
       \/ /\ payload # <<>>
          /\ IF out_conn = "open"
               THEN /\ \E k \in 0..(Len(payload) - 1) :
                         console_rx' = console_rx \o SubSeq(payload, 1, k)
                    /\ g_flush' = <<payload>>
               ELSE UNCHANGED <<console_rx, g_flush>>
          /\ wo_pc' = "sleep2"
  /\ UNCHANGED <<wo_output, output_total, sock_output_connected, out_conn,
                 p_main, p_proc, p_ri, p_in, g_read, g_reset, stdin_written>>
  /\ UNCHANGED <<shutdown, nonProc>>

\* (variant: a failed write leaves the connection state as it is)
ConnectedAfterFailureKept(connected) == connected

\* lines 181-183 / 223-226: self.sock_output_connected = False
ConnectedAfterFailure(connected) == FALSE

\* lines 223-226
WoSendFailed ==
  /\ wo_pc = "sleep2"
  /\ sock_output_connected' = ConnectedAfterFailure(sock_output_connected)
  /\ wo_pc' = "top"
  /\ UNCHANGED <<wo_output, output_total, out_conn, console_rx,
                 p_main, p_proc, p_ri, p_in, p_g, stdin_written>>
  /\ UNCHANGED <<shutdown, nonProc>>

\* the main thread has no further use of the output endpoint
OutputDone == p_pc \in {"once_in_accept", "once_recv", "prompted"}

\* the console on the output endpoint goes away
OutClose ==
  /\ out_conn = "open"
  /\ ~SessionOver
  /\ ~OutputDone
  /\ out_conn' = "closed"
  /\ UNCHANGED <<sock_output_connected, console_rx, p_g,
                 p_main, p_proc, p_wo, p_ri, p_in, stdin_written>>
  /\ UNCHANGED <<shutdown, nonProc>>

\* ---- thread_read_input
\* line 263: while not self._stop_event.is_set()
RiLoopTest ==
  /\ ri_pc = "outer"
  /\ ri_pc' = IF stop_event THEN "done" ELSE "inner"
  /\ UNCHANGED <<ri_request, p_in, p_main, p_proc, p_wo, p_out, p_g,
                 stdin_written>>
  /\ UNCHANGED <<shutdown, nonProc>>

\* line 264: while not (self.sock_input_connected or stop event set); the
\* loop of line 274 follows it
RiConnectTest ==
  /\ ri_pc = "inner"
  /\ ri_pc' = IF sock_input_connected \/ stop_event THEN "recv" ELSE "accept"
  /\ UNCHANGED <<ri_request, p_in, p_main, p_proc, p_wo, p_out, p_g,
                 stdin_written>>
  /\ UNCHANGED <<shutdown, nonProc>>

\* lines 267-272: accept ends, after at most 0.05 s, with a console's
\* connection, or with socket.timeout and continue
RiAccept ==
  /\ ri_pc = "accept"
  /\ \/ /\ ri_pc' = "inner"
        /\ UNCHANGED sock_input_connected
     \/ /\ sock_input_connected' = TRUE
        /\ ri_pc' = "recv"
  /\ UNCHANGED <<ri_request, in_recvs, in_resets, p_main, p_proc, p_wo,
                 p_out, p_g, stdin_written>>
  /\ UNCHANGED <<shutdown, nonProc>>

\* line 274: while not self._stop_event.is_set(); line 286 follows the loop
RiRecvTest ==
  /\ ri_pc = "recv"
  /\ ri_pc' = IF stop_event THEN "check" ELSE "recv_wait"
  /\ UNCHANGED <<ri_request, p_in, p_main, p_proc, p_wo, p_out, p_g,
                 stdin_written>>
  /\ UNCHANGED <<shutdown, nonProc>>

\* lines 276-285: recv ends, after at most 1 s, with a line, "" (the console
\* closed its end), socket.timeout and continue, or ConnectionResetError
RiRecv ==
  /\ ri_pc = "recv_wait"
  /\ \/ /\ ri_pc' = "recv"
        /\ UNCHANGED <<ri_request, p_in>>
     \/ /\ in_recvs < MaxInput
        /\ \E l \in InLines : ri_request' = l
        /\ in_recvs' = in_recvs + 1
        /\ ri_pc' = "check"
        /\ UNCHANGED <<sock_input_connected, in_resets>>
     \/ /\ ri_request' = ""
        /\ ri_pc' = "check"
        /\ UNCHANGED p_in
     \/ /\ in_resets < MaxResets
        /\ in_resets' = in_resets + 1
        /\ sock_input_connected' = FALSE
        /\ ri_pc' = "check"
        /\ UNCHANGED <<ri_request, in_recvs>>
  /\ UNCHANGED <<p_main, p_proc, p_wo, p_out, p_g, stdin_written>>
  /\ UNCHANGED <<shutdown, nonProc>>

\* (variant: an empty read is forwarded like a line)
AfterReadForwardsEmpty(stopped, request) ==
  IF stopped THEN "done"
  ELSE IF request = Unbound THEN "done"
  ELSE "write"

\* lines 286-291: where thread_read_input goes after its read loop
AfterRead(stopped, request) ==
  IF stopped THEN "done"
  ELSE IF request = Unbound THEN "done"
  ELSE IF request = "" THEN "done"
  ELSE "write"

\* lines 286-291; "not request" with request unbound raises
\* UnboundLocalError, which the except clause of lines 297-299 swallows
RiCheck ==
  /\ ri_pc = "check"
  /\ ri_pc' = AfterRead(stop_event, ri_request)
  /\ UNCHANGED <<ri_request, p_main, p_proc, p_wo, p_out, p_in, p_g,
                 stdin_written>>
  /\ UNCHANGED <<shutdown, nonProc>>

\* lines 292-296; BrokenPipeError once the process is gone
RiWrite ==
  /\ ri_pc = "write"
  /\ IF proc = "running"
       THEN /\ stdin_written' = Append(stdin_written, ri_request)
            /\ ri_pc' = "outer"
       ELSE /\ ri_pc' = "done"
            /\ UNCHANGED stdin_written
  /\ UNCHANGED <<ri_request, p_main, p_proc, p_wo, p_out, p_in, p_g>>
  /\ UNCHANGED <<shutdown, nonProc>>

\* ---- send_command_recursive once send_command has returned: the prompt
\* line 357: the loop test on what send_command returned (None != 0 holds)
PromptCall ==
  /\ p_pc = "returned"
  /\ return_code # <<0>>
  /\ ~shutdown
  /\ p_pc' = "once_accept"
  /\ g_read' = <<>>
  /\ g_flush' = <<>>
  /\ g_reset' = (out_conn = "closed" /\ ~sock_output_connected)
  /\ UNCHANGED <<return_code, stop_event, once_ret>>
  /\ UNCHANGED <<p_proc, p_wo, p_ri, p_out, p_in, stdin_written>>
  /\ UNCHANGED <<shutdown, nonProc>>

\* write_output_once lines 164-172: accept until a console is connected
OnceAccept ==
  /\ p_pc = "once_accept"
  /\ IF sock_output_connected
       THEN /\ p_pc' = "once_send"
            /\ UNCHANGED p_out
       ELSE \/ UNCHANGED <<p_pc, p_out>>
            \/ /\ out_conn' = "open"
               /\ console_rx' = <<>>
               /\ sock_output_connected' = TRUE
               /\ p_pc' = "once_send"
  /\ UNCHANGED <<return_code, stop_event, once_ret>>
  /\ UNCHANGED <<p_proc, p_wo, p_ri, p_in, p_g, stdin_written>>
  /\ UNCHANGED <<shutdown, nonProc>>

\* write_output_once lines 174-179: sendall of the prompt on the
\* non-blocking connection: the console receives it, or sendall raises
\* BlockingIOError since the console has not emptied the buffer; with the
\* console gone it fails, or goes unnoticed
OnceSend ==
  /\ p_pc = "once_send"
  /\ \/ /\ out_conn = "open"
        /\ console_rx' = Append(console_rx, PromptText)
        /\ p_pc' = "once_in_accept"
     \/ /\ p_pc' = "once_failed"
        /\ UNCHANGED console_rx
     \/ /\ out_conn # "open"
        /\ p_pc' = "once_in_accept"
        /\ UNCHANGED console_rx
  /\ UNCHANGED <<sock_output_connected, out_conn>>
  /\ UNCHANGED <<return_code, stop_event, once_ret>>
  /\ UNCHANGED <<p_proc, p_wo, p_ri, p_in, p_g, stdin_written>>
  /\ UNCHANGED <<shutdown, nonProc>>

\* write_output_once lines 181-183
OnceSendFailed ==
  /\ p_pc = "once_failed"
  /\ sock_output_connected' = ConnectedAfterFailure(sock_output_connected)
  /\ p_pc' = "once_in_accept"
  /\ UNCHANGED <<out_conn, console_rx>>
  /\ UNCHANGED <<return_code, stop_event, once_ret>>
  /\ UNCHANGED <<p_proc, p_wo, p_ri, p_in, p_g, stdin_written>>
  /\ UNCHANGED <<shutdown, nonProc>>

\* read_input_once lines 236-246
OnceInAccept ==
  /\ p_pc = "once_in_accept"
  /\ IF sock_input_connected \/ stop_event
       THEN /\ p_pc' = "once_recv"
            /\ UNCHANGED sock_input_connected
       ELSE \/ UNCHANGED <<p_pc, sock_input_connected>>
            \/ /\ sock_input_connected' = TRUE
               /\ p_pc' = "once_recv"
  /\ UNCHANGED <<in_recvs, in_resets>>
  /\ UNCHANGED <<return_code, stop_event, once_ret>>
  /\ UNCHANGED <<p_proc, p_wo, p_ri, p_out, p_g, stdin_written>>
  /\ UNCHANGED <<shutdown, nonProc>>

\* read_input_once lines 247-258: recv gives a line, "" (the console closed
\* its end), socket.timeout, or ConnectionResetError; the function hands back
\* None after a reset and when the stop event is set
OnceRecv ==
  /\ p_pc = "once_recv"
  /\ IF stop_event
       THEN /\ once_ret' = NoneValue
            /\ p_pc' = "prompted"
            /\ UNCHANGED p_in
       ELSE \/ UNCHANGED <<p_pc, once_ret, p_in>>
            \/ /\ in_recvs < MaxInput
               /\ \E l \in InLines : once_ret' = l
               /\ in_recvs' = in_recvs + 1
               /\ p_pc' = "prompted"
               /\ UNCHANGED <<sock_input_connected, in_resets>>
            \/ /\ once_ret' = ""
               /\ p_pc' = "prompted"
               /\ UNCHANGED p_in
            \/ /\ in_resets < MaxResets
               /\ in_resets' = in_resets + 1
               /\ sock_input_connected' = FALSE
               /\ once_ret' = NoneValue
               /\ p_pc' = "prompted"
               /\ UNCHANGED in_recvs
  /\ UNCHANGED <<return_code, stop_event>>
  /\ UNCHANGED <<p_proc, p_wo, p_ri, p_out, p_g, stdin_written>>
  /\ UNCHANGED <<shutdown, nonProc>>

PromptStep ==
  \/ PromptCall
  \/ OnceAccept
  \/ OnceSend
  \/ OnceSendFailed
  \/ OnceInAccept
  \/ OnceRecv

InitProc ==
  /\ shutdown = FALSE
  /\ InitCmdVars
  /\ InitRetryVars
  /\ InitProcVars
  /\ InitLevelVars
  /\ InitExtraVars

MainStep ==
  \/ SendCommandCall
  \/ Popen
  \/ StartInputThread
  \/ StartOutputThread
  \/ WaitLoopTest
  \/ WaitSleep
  \/ PollReturnCode
  \/ ExceptKill
  \/ FinallySetStop
  \/ JoinOutput
  \/ JoinInput
  \/ ClearAndReturn

WoStep ==
  \/ WoLoopTest
  \/ WoReadline
  \/ WoPostRead
  \/ WoSend
  \/ WoFlush
  \/ WoSendFailed

RiStep ==
  \/ RiLoopTest
  \/ RiConnectTest
  \/ RiAccept
  \/ RiRecvTest
  \/ RiRecv
  \/ RiCheck
  \/ RiWrite

\* one call of send_command
NextSession ==
  \/ MainStep
  \/ WoStep
  \/ RiStep
  \/ ProcExit
  \/ OutClose
  \/ SetShutdown

\* send_command, then the prompt of send_command_recursive
NextProc ==
  \/ NextSession
  \/ PromptStep

SpecProc == InitProc /\ [][NextProc]_vars

\* one call of send_command: the threads and the main thread are scheduled
\* again and again, and the sockets' timeouts (lines 138, 149, 268) bound
\* every wait of a thread; nothing obliges the process to end, the node to
\* be shut down or a console to connect
SpecProcFair ==
  /\ InitProc
  /\ [][NextSession]_vars
  /\ WF_vars(MainStep) /\ WF_vars(WoStep) /\ WF_vars(RiStep)

\* ======================================================= claims under SpecCmd
ExpectedResult(st) == IF st = StatusOK THEN 0 ELSE 1

\* C1: when publish_and_wait_response returns and a terminal acknowledgment
\* carrying the command's identifier was delivered to ack_callback during the
\* wait, the call returned on the first such acknowledgment: 0 if its status
\* is OK, 1 otherwise.
C1_FirstTerminalAckResolves ==
  (pc = "pwr_ret" /\ g_term # NoTerm) =>
    /\ resolved_by # NoMsg
    /\ resolved_by.status = g_term
    /\ result = ExpectedResult(g_term)

\* C2: when no acknowledgment with the command's identifier is delivered
\* during the wait, the call returns 1 after exactly MAX_COUNTER sleeps, and
\* a wait never sleeps more than MAX_COUNTER times.
C2_TimeoutAfterExactlyMaxCounter ==
  /\ (pc = "pwr_ret" /\ unique_cmd_id \in published
        /\ g_term = NoTerm /\ ~g_not) =>
       (result = 1 /\ sleeps = MAX_COUNTER /\ resolved_by = NoMsg)
  /\ InWait => sleeps <= MAX_COUNTER

C2_Witness ==
  /\ pc = "pwr_ret"
  /\ unique_cmd_id \in published
  /\ g_term = NoTerm /\ ~g_not
  /\ g_other
  /\ sleeps = MAX_COUNTER
  /\ result = 1

\* C3: a matching NOT acknowledgment followed by a matching terminal one, both
\* delivered while at least two poll iterations are left, makes the call
\* return on the terminal one (0 for OK, 1 for failed).
C3_TerminalAfterNotResolves ==
  (pc = "pwr_ret" /\ g_not /\ g_term # NoTerm /\ g_early) =>
    /\ resolved_by # NoMsg
    /\ resolved_by.status = g_term
    /\ result = ExpectedResult(g_term)

\* C4: the acknowledgment ack_callback stores, the one the polling loop reads
\* and the one the call returns on all carry the identifier of the current
\* command.
C4_OnlyOwnAckResolves ==
  /\ cb_pc \in {"store", "clear"} => cb_msg.cmd_id = unique_cmd_id
  /\ pc = "pwr_status" => ack_msg.cmd_id = unique_cmd_id
  /\ resolved_by # NoMsg => resolved_by.cmd_id = unique_cmd_id

C4_Witness ==
  /\ pc = "pwr_ret"
  /\ run_number > 1
  /\ g_late
  /\ resolved_by # NoMsg
  /\ resolved_by.cmd_id = unique_cmd_id

\* ====================================================== claims under SpecProc
\* C5: when the console's connection is accepted during send_command, the
\* console receives every line read from the process before that, in order,
\* none dropped.
C5_AllOutputFlushed ==
  g_flush # <<>> => console_rx = EncodeSeq(g_read)

\* C6: once _stop_event is set, thread_write_output and thread_read_input
\* both end, each at its next test of the flag, and thread_read_input starts
\* no further accept or recv; send_command joins both
\* before it returns; setting the flag leaves the process alone, which is
\* killed only in the except clause of send_command.
C6_StopEndsBothTasks ==
  /\ [](p_pc \in {"join_in", "clear", "returned"} => wo_pc = "done")
  /\ [](p_pc \in {"clear", "returned"} => ri_pc = "done")
  /\ [][(stop_event /\ wo_pc \in {"top", "postread"} /\ wo_pc' # wo_pc)
          => wo_pc' = "done"]_vars
  /\ [][(stop_event /\ ri_pc \in {"outer", "check"} /\ ri_pc' # ri_pc)
          => ri_pc' = "done"]_vars
  /\ [][(stop_event /\ ri_pc' # ri_pc) => ri_pc' \notin {"accept", "recv_wait"}]_vars
  /\ [][(stop_event' # stop_event) => UNCHANGED <<proc, killed>>]_vars
  /\ [][(killed' /\ ~killed) => (p_pc = "except" /\ ~stop_event)]_vars
  /\ (stop_event /\ p_pc = "join_out") ~> (p_pc = "returned")

C6_Witness ==
  /\ p_pc = "returned"
  /\ proc = "running"
  /\ ~killed
  /\ wo_pc = "done"
  /\ ri_pc = "done"
  /\ stdin_written # <<>>

\* ===================================================== claims under SpecRetry
RReturned == r_ret # NoRet

\* C7: once the first execution of the action has returned 0, no prompt is
\* issued, no input is read, the action is not executed again, and the
\* top-level call returns 0.
C7_SuccessNeedsNoPrompt ==
  r_first = <<0>> =>
    /\ r_prompts = 0
    /\ r_reads = 0
    /\ r_execs = 1
    /\ RReturned => r_ret = <<0>>

C7_Witness ==
  /\ r_first = <<0>>
  /\ r_ret = <<0>>
  /\ r_execs = 1

\* C8: when the latest reply read is "skip" in any letter case, the top-level
\* call returns 0 and the action was not executed after that reply; and a
\* returned 0 whose latest execution gave a non-zero result always comes from
\* a "skip" reply.
C8_SkipForcesZero ==
  /\ (RReturned /\ r_mark.raw \in {"skip", "sKiP"}) =>
       (r_ret = <<0>> /\ r_execs = r_mark.execs /\ r_skipped)
  /\ (r_ret = <<0>> /\ r_last # <<0>>) => r_skipped

C8_Witness ==
  /\ r_ret = <<0>>
  /\ r_mark.raw = "sKiP"
  /\ r_last # <<0>>
  /\ r_execs = 1

\* C9: when the latest reply read is "no", the top-level call returns the
\* non-zero result of the latest execution, with no execution and no prompt
\* after that reply.
C9_NoKeepsResult ==
  (RReturned /\ r_mark.raw \in {"no", "No"}) =>
    /\ r_ret = r_last
    /\ r_ret # <<0>>
    /\ r_execs = r_mark.execs
    /\ r_prompts = r_mark.prompts

C9_Witness ==
  /\ r_ret = <<2>>
  /\ r_mark.raw = "no"
  /\ r_execs = 1
  /\ r_prompts = 1

\* C10: every invocation below the top of the stack is inside its recursive
\* call; when the recursive call returns, the calling invocation takes its
\* result and goes straight to its own return, so it prompts no more; and a
\* run whose re-executed action returns 0 returns 0.
C10_YesAdoptsRecursiveResult ==
  /\ [][Len(r_stack') < Len(r_stack) =>
          /\ r_stack'[Len(r_stack')].pc = "ret"
          /\ r_stack'[Len(r_stack')].exit_code = r_stack[Len(r_stack)].exit_code
          /\ r_prompts' = r_prompts]_vars
  /\ [](\A i \in 1..(Len(r_stack) - 1) : r_stack[i].pc \in {"call", "ret"})
  /\ []((RReturned /\ r_execs > 1 /\ r_last = <<0>>) => r_ret = <<0>>)

C10_Witness ==
  /\ r_ret = <<0>>
  /\ r_first = <<1>>
  /\ r_execs = 2
  /\ r_prompts = 1
  /\ r_mark.raw = "yes"
  /\ ~r_skipped

\* a reply that is none of "yes", "no", "skip" once lower-cased
OtherReply(v) == Lower(v) \notin {"yes", "no", "skip"}

\* the latest read was made by the running frame and nothing was prompted or
\* executed since
JustRead ==
  /\ RDepth > 0
  /\ r_reads > 0
  /\ r_mark.prompts = r_prompts
  /\ r_mark.execs = r_execs

\* C11: when the result is non-zero and read_input_once hands back anything
\* other than "yes", "no" or "skip" (an unrecognised line, "", or no value),
\* the orchestrator keeps the result and goes back to the loop test to prompt
\* again; it neither returns nor raises.
C11_OtherInputReprompts ==
  (JustRead /\ OtherReply(r_mark.raw) /\ ~shutdown) =>
    /\ RTop.pc \in {"branch", "loop", "prompt"}
    /\ RTop.exit_code # 0
    /\ r_ret = NoRet

\* C12: send_command returns only once thread_write_output has ended and the
\* process has exited, and what it returns (no fault having occurred) is the
\* exit code of the process, an integer; it never returns something else
\* while the process still runs.
C12_ResultIsExitCode ==
  (p_pc = "returned" /\ ~killed /\ ~shutdown) =>
    /\ wo_pc = "done"
    /\ proc = "exited"
    /\ return_code \in {<<c>> : c \in ProcCodes}

\* C13: a fault during launch or wait in send_command never leaves it as an
\* exception: a process that was created is killed, and send_command returns
\* a non-zero integer.
C13_FaultsResolvedLocally ==
  /\ p_pc # "raised"
  /\ (p_pc = "returned" /\ shutdown) =>
       /\ killed
       /\ proc = "exited"
       /\ return_code = <<1>>

\* ======================================================= claims under SpecCmd
\* C14: once the node is shut down, publish_and_wait_response returns 1 at
\* once: entered under shutdown it returns 1 without publishing, and in the
\* wait it performs no further sleeping iteration and raises nothing.
C14_ShutdownResolvesAtOnce ==
  /\ [][(shutdown /\ pc = "pwr_enter" /\ pc' # pc)
          => (pc' = "pwr_ret" /\ result' = 1 /\ published' = published)]_vars
  /\ [][(shutdown /\ pc = "pwr_sleep")
          => (sleeps' = sleeps /\ pc' # "raised")]_vars

\* C15: wait_plan is a bounded poll: it passes through its loop body at most
\* MAX_COUNTER times before it returns, 0 once plan_status_needed was cleared
\* and 1 when it never is.
C15_WaitPlanBounded ==
  /\ pc = "wp_loop" => polls <= MAX_COUNTER
  /\ pc = "wp_ret" => result \in {0, 1}
  /\ (pc = "wp_ret" /\ result = 0) => plan_status_needed = FALSE

\* C16: while plan_status_needed is set, a plan status event whose name does
\* not hold the awaited plan name clears the flag although the awaited plan
\* did not complete, and the wait_plan that follows returns 0 (1 only for a
\* node already shut down, as for a completed plan).
C16_MismatchAbandonsPlan ==
  /\ g_plan = "abandoned" => plan_status_needed = FALSE
  /\ (pc = "wp_ret" /\ g_plan = "abandoned") => (result = 0 \/ shutdown)
  /\ (pc = "wp_ret" /\ result = 0) => g_plan \in {"abandoned", "completed"}

C16_Witness ==
  /\ pc = "wp_ret"
  /\ g_plan = "abandoned"
  /\ plan_name = PlanFile
  /\ result = 0
  /\ ~shutdown

\* C17: a CommandExecutor has one command in flight at a time: when
\* publish_and_wait_response is entered no earlier command still awaits its
\* acknowledgment, because a command is discarded (ack_needed cleared) once
\* its wait has ended, by a terminal acknowledgment or by the exhausted
\* budget.
C17_OneCommandInFlight ==
  /\ pc = "pwr_enter" => ack_needed = FALSE
  /\ pc = "pwr_ret" => ack_needed = FALSE

\* C17, amended: when publish_and_wait_response is entered no earlier command
\* of that CommandExecutor still awaits its acknowledgment; ack_needed is
\* clear after a wait that a terminal acknowledgment resolved, and after an
\* exhausted budget, where it may stay set, survey_manager_executor sends no
\* further command on that CommandExecutor.
C17_NoPublishWhileAwaiting ==
  /\ pc = "pwr_enter" => ack_needed = FALSE
  /\ (pc = "pwr_ret" /\ resolved_by # NoMsg) => ack_needed = FALSE
  /\ (pc \in {"process", "process_wait", "set_plan_needed", "set_plan_name",
              "wait_plan", "wp_loop", "wp_ret", "stop_recording"})
       => ack_needed = FALSE

C17_Witness ==
  /\ pc = "pwr_enter"
  /\ cmd = "stop"
  /\ Cardinality(published) = 1
  /\ ack_needed = FALSE
  /\ ack_msg.status = StatusOK

\* ==================================================== claims under SpecLevels
\* C18: given the same action results, the same operator replies and the
\* same shutdown status, send_command_recursive and
\* survey_manager_executor_recursive write the same prompts, execute their
\* action the same number of times, read the same replies and end the same
\* way with the same result.
C18_LevelsBehaveAlike ==
  (l_send # <<>> /\ l_survey # <<>>) =>
    Observed(l_send[1]) = Observed(l_survey[1])

C18_Witness ==
  /\ l_send # <<>>
  /\ l_survey # <<>>
  /\ l_send[1].status = "returned"
  /\ l_send[1].execs = 3
  /\ Len(l_send[1].prompts) = 2
  /\ l_send[1].ret = 2
  /\ l_survey[1].runs = <<1, 2, 3>>

\* ===================================================== claims under SpecRetry
\* C19: the orchestrator prompts only while the result is non-zero and the
\* node is not shut down: a loop test made under shutdown goes to the return
\* with the result as it is, and no prompt, read or execution follows from
\* it; a non-zero first result is returned unprompted only under shutdown.
C19_NoPromptUnderShutdown ==
  /\ [][(RRunning /\ RTop.pc = "loop" /\ shutdown /\ r_stack' # r_stack)
          => /\ Len(r_stack') = Len(r_stack)
             /\ r_stack'[Len(r_stack')].pc = "ret"
             /\ r_stack'[Len(r_stack')].exit_code = RTop.exit_code
             /\ UNCHANGED <<r_prompts, r_reads, r_execs>>]_vars
  /\ []((RReturned /\ r_prompts = 0 /\ r_first # <<0>>)
          => (shutdown /\ r_ret = r_first /\ r_reads = 0 /\ r_execs = 1))

C19_Witness ==
  /\ RReturned
  /\ shutdown
  /\ r_ret = <<2>>
  /\ r_prompts = 0
  /\ r_reads = 0
  /\ r_execs = 1

\* ======================================================= claims under SpecCmd
\* C20: in publish_and_wait_response a NOT acknowledgment sets ack_needed
\* again and leaves counter as it is; whatever acknowledgments arrive, one
\* call sleeps at most MAX_COUNTER times, counter counts exactly the sleeps,
\* and the call returns 0 or 1.
C20_NotAckKeepsBudget ==
  /\ [][(pc = "pwr_rearm" /\ pc' # pc)
          => /\ pc' = "pwr_loop"
             /\ ack_needed' = TRUE
             /\ counter' = counter
             /\ sleeps' = sleeps]_vars
  /\ [](InWait => (counter = sleeps /\ sleeps <= MAX_COUNTER))
  /\ [](pc = "pwr_ret" => (result \in {0, 1} /\ sleeps <= MAX_COUNTER))

C20_Witness ==
  /\ pc = "pwr_ret"
  /\ g_not
  /\ ack_msg.status = StatusNOT
  /\ sleeps = MAX_COUNTER
  /\ result = 1

\* ================================================ claims under SpecPlanStatus
\* C21: plan_status_callback changes nothing but plan_status_needed, and that
\* only when the flag is set: an event received while the flag is not set
\* leaves it not set; an event named as the awaited plan clears the flag when
\* its step status is 3 and leaves it set for every other status.
C21_CallbackOnlyWhileWaiting ==
  [][(ps_count' # ps_count) =>
       /\ plan_name' = plan_name
       /\ pc' = pc
       /\ (plan_status_needed = FALSE => plan_status_needed' = FALSE)
       /\ (plan_status_needed = TRUE /\ ps_event'.name = plan_name) =>
            (plan_status_needed' = (ps_event'.status # 3))]_vars

C21_Witness ==
  /\ ps_count = 3
  /\ plan_name = PlanFile
  /\ ps_event = [name |-> PlanFile, status |-> 3, needed |-> TRUE]
  /\ plan_status_needed = FALSE

\* ====================================================== claims under SpecProc
\* C22: a write to the output endpoint that fails because the console is gone
\* resets sock_output_connected and raises nothing: thread_write_output goes
\* back to its loop test, write_output_once returns to its caller (every
\* failed write does, and a write to a console that is gone fails so or goes
\* unnoticed, with nothing delivered); as long as
\* the state is reset the next attempt accepts a console's new connection,
\* which starts empty and is served next (the history, or the prompt).
C22_WriteFailureResetsConnection ==
  /\ [][(wo_pc = "sleep2" /\ wo_pc' # wo_pc)
          => (sock_output_connected' = FALSE /\ wo_pc' = "top")]_vars
  /\ [][(p_pc = "once_failed" /\ p_pc' # p_pc)
          => (sock_output_connected' = FALSE /\ p_pc' = "once_in_accept")]_vars
  /\ [][(out_conn = "closed" /\ sock_output_connected
           /\ wo_pc \in {"send", "flush"} /\ wo_pc' # wo_pc)
          => (wo_pc' \in {"sleep2", "top"} /\ console_rx' = console_rx)]_vars
  /\ [][(out_conn = "closed" /\ p_pc = "once_send" /\ p_pc' # p_pc)
          => (p_pc' \in {"once_failed", "once_in_accept"}
              /\ console_rx' = console_rx)]_vars
  /\ [][(~sock_output_connected /\ sock_output_connected')
          => /\ out_conn' = "open"
             /\ console_rx' = <<>>
             /\ (wo_pc' = "flush" \/ p_pc' = "once_send")]_vars
  /\ [](p_pc = "raised" => wo_pc = "off")

C22_Witness ==
  /\ g_reset
  /\ p_pc = "once_in_accept"
  /\ sock_output_connected
  /\ out_conn = "open"
  /\ console_rx = <<PromptText>>
  /\ stdin_written # <<>>

\* C23: thread_read_input writes to the process's standard input only the
\* non-empty request it holds after its read loop, and then goes back to wait
\* for the console and read again; an empty read (the console closed its
\* end) ends the task with nothing written for it, and an ended task writes
\* nothing more.
C23_EmptyReadEndsInputTask ==
  /\ [][(stdin_written' # stdin_written)
          => /\ ri_pc = "write"
             /\ ri_request \notin {"", Unbound}
             /\ stdin_written' = Append(stdin_written, ri_request)
             /\ ri_pc' = "outer"]_vars
  /\ [][(ri_pc = "check" /\ ri_request = "" /\ ri_pc' # ri_pc)
          => (ri_pc' = "done" /\ stdin_written' = stdin_written)]_vars
  /\ [][(ri_pc = "done")
          => (ri_pc' = "done" /\ stdin_written' = stdin_written)]_vars

C23_Witness ==
  /\ ri_pc = "done"
  /\ ri_request = ""
  /\ stdin_written = <<"go">>
  /\ ~stop_event
  /\ proc = "running"
  /\ p_pc = "wait"

\* C24: thread_read_input writes each line received from the input endpoint
\* to the process's standard input once: never more lines than were
\* received, and no connection reset makes a line go to the process again.
C24_EachLineWrittenOnce ==
  /\ Len(stdin_written) <= in_recvs
  /\ ri_pc = "write" => Len(stdin_written) < in_recvs

OnceStates == {"once_accept", "once_send", "once_failed", "once_in_accept",
               "once_recv", "prompted"}

\* C25: when send_command has returned, thread_write_output and
\* thread_read_input have ended and _stop_event is clear, so write_output_once
\* and read_input_once run with no forwarding thread alive (and a
\* send_command that raised had started none); the output connection and its
\* flag are written by thread_write_output or by write_output_once, the input
\* flag by thread_read_input or by read_input_once, never by two tasks in a
\* step or while the other is alive.
C25_PromptRunsAlone ==
  /\ []((p_pc = "returned" \/ p_pc \in OnceStates)
          => (wo_pc = "done" /\ ri_pc = "done" /\ ~stop_event))
  /\ [](p_pc = "raised" => (wo_pc = "off" /\ ri_pc = "off"))
  /\ [][(sock_output_connected' # sock_output_connected
           \/ console_rx' # console_rx)
          => \/ (wo_pc' # wo_pc /\ p_pc' = p_pc /\ p_pc \notin OnceStates)
             \/ (p_pc' # p_pc /\ p_pc \in OnceStates /\ wo_pc' = wo_pc)]_vars
  /\ [][(sock_input_connected' # sock_input_connected)
          => \/ (ri_pc' # ri_pc /\ p_pc' = p_pc /\ p_pc \notin OnceStates)
             \/ (p_pc' # p_pc /\ p_pc \in OnceStates /\ ri_pc' = ri_pc)]_vars

C25_Witness ==
  /\ p_pc = "prompted"
  /\ return_code = <<1>>
  /\ once_ret = "go"
  /\ console_rx = <<PromptText>>
  /\ sock_output_connected
  /\ sock_input_connected
  /\ in_resets = 1

\* ===================================================== claims under SpecRetry
\* C26: in one top-level call the action is executed once, and once more for
\* every "yes" read (in any letter case): a returned call has made 1 + yes
\* executions; an execution after the first directly follows a read of "yes";
\* a prompt is written only by an invocation whose own execution, the latest
\* one, gave a non-zero result.
C26_OneExecutionPerYes ==
  /\ [](RReturned => r_execs = 1 + r_mark.yes)
  /\ [](RRunning => (r_execs <= 1 + r_mark.yes /\ r_mark.yes <= r_execs))
  /\ [][(r_execs' # r_execs /\ r_execs >= 1)
          => /\ Lower(r_mark.raw) = "yes"
             /\ r_mark.execs = r_execs
             /\ r_mark.prompts = r_prompts
             /\ r_reads = r_prompts]_vars
  /\ [][(r_prompts' # r_prompts)
          => /\ RTop.exit_code # 0
             /\ r_last = <<RTop.exit_code>>]_vars

C26_Witness ==
  /\ RReturned
  /\ r_execs = 3
  /\ r_mark.yes = 2
  /\ r_prompts = 4
  /\ r_mark.raw = "no"

\* ======================================================= claims under SpecCmd
\* C27: survey_manager_executor runs start_recording, the supervised process,
\* wait_plan (stereo with the result still 0) and stop_recording in that
\* order: a failed start_recording makes it return non-zero at once, and once
\* the process step has been run (send_command_recursive was called and has
\* ended) stop_recording is called next, after wait_plan where it applies,
\* whatever the result of the process.
C27_StopRecordingFollowsProcess ==
  /\ [][(pc = "pwr_ret" /\ cmd = "start" /\ result # 0 /\ pc' # pc)
          => (pc' = "exec_ret" /\ exit_code' # 0)]_vars
  /\ [][(pc = "process_wait" /\ pc' # pc)
          => /\ pc' \in {"wait_plan", "stop_recording"}
             /\ pc' = "wait_plan" => (atype = "stereo" /\ exit_code' = 0)]_vars
  /\ [][(pc = "wp_ret" /\ pc' # pc) => pc' = "stop_recording"]_vars

\* ================================================== claims under SpecExecutor
\* C28: survey_manager_executor returns 0 only when every step it executed
\* returned 0; no non-zero step results add up to 0.
C28_ZeroOnlyIfAllStepsZero ==
  (e_out # <<>> /\ e_out[1].ret = <<0>>) =>
    \A i \in 1..Len(e_out[1].steps) : e_out[1].steps[i].result = <<0>>

\* ====================================================== claims under SpecBind
\* C29: at any time at most one session holds an open socket bound to a
\* given path: a ProcessExecutor constructed for a robot name never binds
\* the input or output address while a live session still holds it.
C29_OneSessionPerEndpoint ==
  \A p \in Paths : Cardinality({s \in Sessions : p \in b_bound[s]}) <= 1
====
